---- MODULE Spec2Model ----
(***************************************************************************)
(* PREVENT risk engine (src/src/lib/prevent-equations.ts).                 *)
(*                                                                         *)
(* The engine works on IEEE doubles; the model works on integers in fixed  *)
(* point.  Units of the inputs:                                            *)
(*   age (years), tc, hdl (mg/dL), sbp (mmHg), egfr, sdi : integers        *)
(*   bmi   : tenths of kg/m2        (185 is 18.5, 400 is 40)               *)
(*   uacr  : hundredths of mg/g     (10 is 0.1, 5 is 0.05)                 *)
(*   hba1c : tenths of a percent    (53 is 5.3)                            *)
(* Log-odds are in units of 1/LogorScale, percentages in units of          *)
(* 1/PercentScale of a percent.  An optional field of the input record is  *)
(* <<>> when undefined and <<v>> when it holds v.  A double is a record    *)
(* [k, v]: k is "num" (the value v), "NaN", "Infinity" or "null".          *)
(***************************************************************************)
EXTENDS Integers, Sequences, FiniteSets, TLC

VARIABLES
    params,     \* the PreventInputs record of the current call
    results,    \* the PreventResults record the call returned
    pc,         \* "input": the caller is building params; "returned": after the call
    edits,      \* how many fields of the baseline patient were changed
    call,       \* a direct call of an exported helper: [fn, args]
    ret,        \* what that call returned: <<>> before it returns, <<value>> after
    inputs,     \* the form (App.tsx): the text of each of its 14 fields
    formattedResults,   \* the form's results state: <<>> for null, <<record>> otherwise
    errors      \* the form's errors state, a sequence of messages

formVars == <<inputs, formattedResults, errors>>

vars == <<params, results, pc, edits, call, ret, inputs, formattedResults, errors>>

----------------------------------------------------------------------------
\* Fixed-point scales of the model.
LogorScale == 100000
PercentScale == 100

\* JavaScript values.
undefined == <<>>
Some(v) == <<v>>
\* x || d
OrElse(x, d) == IF x = undefined THEN d ELSE IF x[1] = 0 THEN d ELSE x[1]
\* !x
Falsy(x) == IF x = undefined THEN TRUE ELSE x[1] = 0

Null == [k |-> "null", v |-> 0]
NaN == [k |-> "NaN", v |-> 0]
Infinity == [k |-> "Infinity", v |-> 0]
Num(v) == [k |-> "num", v |-> v]

Math_min(a, b) == IF a < b THEN a ELSE b
Math_max(a, b) == IF a > b THEN a ELSE b

----------------------------------------------------------------------------
\* Helper functions.

\* sdicat with no upper limit on the third tertile.
sdicat_noUpperLimit(sdi) ==
    IF sdi >= 1 /\ sdi < 4 THEN 0
    ELSE IF sdi >= 4 /\ sdi < 7 THEN 1
    ELSE IF sdi >= 7 THEN 2
    ELSE 0

\* SDI decile to tertile.
sdicat(sdi) ==
    IF sdi >= 1 /\ sdi < 4 THEN 0
    ELSE IF sdi >= 4 /\ sdi < 7 THEN 1
    ELSE IF sdi >= 7 /\ sdi <= 10 THEN 2
    ELSE 0

\* mg/dL to mmol/L: 0.02586 * cholesterol, in units of 1/LogorScale mmol/L.
mmol_conversion(cholesterol) == 2586 * cholesterol

\* adjust lifting negative values too.
adjust_liftsNegative(uacr) == IF uacr >= 10 THEN uacr ELSE 10

\* adjust lifting nothing.
adjust_noLift(uacr) == uacr

\* UACR floor; uacr in hundredths of mg/g, so 0.1 is 10.
adjust(uacr) ==
    IF uacr >= 10 THEN uacr
    ELSE IF uacr >= 0 /\ uacr < 10 THEN 10
    ELSE uacr

\* The two BMI spline segments of the HF formulas, before the division by 5;
\* bmi in tenths of kg/m2, so 25 is 250 and 30 is 300.

\* First segment with its knot at 25.
bmiSegmentLow_knot25(p) == Math_min(OrElse(p.bmi, 250), 250) - 250

\* First segment with an absent bmi read as 0.
bmiSegmentLow_defaultZero(p) == Math_min(OrElse(p.bmi, 0), 300) - 250

\* Math.min(bmi || 25, 30) - 25
bmiSegmentLow(p) == Math_min(OrElse(p.bmi, 250), 300) - 250

\* Math.max(bmi || 25, 30) - 30
bmiSegmentHigh(p) == Math_max(OrElse(p.bmi, 250), 300) - 300

\* ln 2, in units of 1/LogorScale.
Ln2 == 69315

\* Natural logarithm of n/d for n/d in [1, 2), in units of 1/LogorScale:
\* 2 * (z + z^3/3 + z^5/5 + z^7/7 + z^9/9) with z = (n - d)/(n + d).
LogSeries(n, d) ==
    LET z  == ((n - d) * 10000) \div (n + d)
        z2 == (z * z) \div 10000
        z3 == (z2 * z) \div 10000
        z5 == (z3 * z2) \div 10000
        z7 == (z5 * z2) \div 10000
        z9 == (z7 * z2) \div 10000
    IN  2 * 10 * (z + z3 \div 3 + z5 \div 5 + z7 \div 7 + z9 \div 9)

\* ln(n/d) for n, d > 0, by halving or doubling n into [d, 2d).
RECURSIVE LogReduce(_, _)
LogReduce(n, d) ==
    IF n >= 2 * d THEN Ln2 + LogReduce(n \div 2, d)
    ELSE IF n < d THEN LogReduce(2 * n, d) - Ln2
    ELSE LogSeries(n, d)

\* Math.log of a positive value given in hundredths, in units of 1/LogorScale.
\* Math.log of a negative value is NaN: see logIsNaN.
Math_log(x100) == LogReduce(x100 * 1000, 100000)

\* e^(-r) for 0 <= r < ln 2 (r in units of 1/LogorScale), in units of
\* 1/LogorScale, by its Taylor series.
RECURSIVE ExpSeries(_, _, _)
ExpSeries(r4, term, n) ==
    IF term = 0 \/ n > 12 THEN 0
    ELSE term + ExpSeries(r4, (0 - term * r4) \div (10000 * n), n + 1)

RECURSIVE Halve(_, _)
Halve(x, k) == IF k = 0 \/ x = 0 THEN x ELSE Halve(x \div 2, k - 1)

\* e^(-y) for y >= 0, in units of 1/LogorScale.
ExpNeg(y) == Halve(ExpSeries((y % Ln2) \div 10, LogorScale, 1), y \div Ln2)

\* Math.exp(x) overflows to Infinity above ln(DBL_MAX) = 709.7827...
ExpOverflow == 70978271
\* 100 * Math.exp(x) overflows to Infinity above ln(DBL_MAX / 100) = 705.1775...
TimesHundredOverflow == 70517754

\* 100 * Math.exp(x) / (1 + Math.exp(x)) for the log-odds x.  Infinity / Infinity
\* is NaN; Infinity / (a finite 1 + e^x) is Infinity.  A finite quotient is
\* computed from e^(-|x|), which fits the integers of the model.
toPercent(x) ==
    IF x > ExpOverflow THEN NaN
    ELSE IF x > TimesHundredOverflow THEN Infinity
    ELSE IF x <= 0
         THEN LET e == ExpNeg(0 - x)
              IN  Num((100 * PercentScale * e) \div (LogorScale + e))
         ELSE LET e == ExpNeg(x)
              IN  Num(100 * PercentScale - (100 * PercentScale * e) \div (LogorScale + e))

----------------------------------------------------------------------------
\* The optional terms of the full model (closures of preventFull).

\* getSdiTerm without the factor 0.5 of its second product.
getSdiTerm_noHalf(p, coef1, coef2, missingCoef) ==
    IF p.sdi # undefined
    THEN LET sdiTertile == sdicat(p.sdi[1])
         IN  coef1 * (2 - sdiTertile) * sdiTertile
             + coef2 * (sdiTertile - 1) * sdiTertile
    ELSE missingCoef

getSdiTerm(p, coef1, coef2, missingCoef) ==
    IF p.sdi # undefined
    THEN LET sdiTertile == sdicat(p.sdi[1])
         IN  coef1 * (2 - sdiTertile) * sdiTertile
             + (coef2 * (sdiTertile - 1) * sdiTertile) \div 2
    ELSE missingCoef

\* Math.log(adjust(uacr)) is NaN when adjust(uacr) is negative; the NaN then
\* makes every log-odds sum, and every percentage, NaN.
logIsNaN(p) == IF p.uacr # undefined THEN adjust(p.uacr[1]) < 0 ELSE FALSE

\* getUacrTerm testing if (uacr) instead of uacr !== undefined.
getUacrTerm_truthy(p, coef, missingCoef) ==
    IF ~Falsy(p.uacr)
    THEN IF adjust(p.uacr[1]) > 0
         THEN (coef * (Math_log(adjust(p.uacr[1])) \div 10)) \div 10000
         ELSE 0
    ELSE missingCoef

getUacrTerm(p, coef, missingCoef) ==
    IF p.uacr # undefined
    THEN IF adjust(p.uacr[1]) > 0
         THEN (coef * (Math_log(adjust(p.uacr[1])) \div 10)) \div 10000
         ELSE 0
    ELSE missingCoef

getHba1cTerm(p, coefDm, coefNoDm, missingCoef) ==
    IF p.hba1c # undefined
    THEN (coefDm * (p.hba1c[1] - 53) * p.dm) \div 10
         + (coefNoDm * (p.hba1c[1] - 53) * (1 - p.dm)) \div 10
    ELSE missingCoef

----------------------------------------------------------------------------
\* The 24 log-odds sums.  A coefficient c of the source is round(c * LogorScale);
\* a quotient of the source is one integer division of the whole product.

\* 10yr CVD log-odds, female, base model (lines 132-151), in units of 1/LogorScale.
logor_10yr_CVD_female_base(p) ==
    0 - 330773
    + (79393 * (p.age - 55)) \div 10
    + (3052 * ((mmol_conversion(OrElse(p.tc, 0) - OrElse(p.hdl, 0)) - 350000) \div 100)) \div 1000
    - (16069 * ((mmol_conversion(OrElse(p.hdl, 0)) - 130000) \div 100) * 10) \div 3000
    - (23940 * (Math_min(p.sbp, 110) - 110)) \div 20
    + (36008 * (Math_max(p.sbp, 110) - 130)) \div 20
    + 86676 * p.dm
    + 53607 * p.smoking
    - (60459 * (Math_min(p.egfr, 60) - 60)) \div 15
    - (4338 * (Math_max(p.egfr, 60) - 90)) \div 15
    + 31517 * p.bptreat
    - 14777 * OrElse(p.statin, 0)
    - (6636 * p.bptreat * (Math_max(p.sbp, 110) - 130)) \div 20
    + (11979 * OrElse(p.statin, 0) * ((mmol_conversion(OrElse(p.tc, 0) - OrElse(p.hdl, 0)) - 350000) \div 100)) \div 1000
    - (8197 * (p.age - 55) * ((mmol_conversion(OrElse(p.tc, 0) - OrElse(p.hdl, 0)) - 350000) \div 100)) \div 10000
    + (3068 * (p.age - 55) * ((mmol_conversion(OrElse(p.hdl, 0)) - 130000) \div 100) * 10) \div 30000
    - (9463 * (p.age - 55) * (Math_max(p.sbp, 110) - 130)) \div 200
    - (27057 * (p.age - 55) * p.dm) \div 10
    - (7871 * (p.age - 55) * p.smoking) \div 10
    + (16378 * (p.age - 55) * (Math_min(p.egfr, 60) - 60)) \div 150

\* 30yr CVD log-odds, female, base model (lines 155-175), in units of 1/LogorScale.
logor_30yr_CVD_female_base(p) ==
    0 - 131883
    + (55031 * (p.age - 55)) \div 10
    - (9284 * (p.age - 55) * (p.age - 55)) \div 100
    + (4098 * ((mmol_conversion(OrElse(p.tc, 0) - OrElse(p.hdl, 0)) - 350000) \div 100)) \div 1000
    - (16633 * ((mmol_conversion(OrElse(p.hdl, 0)) - 130000) \div 100) * 10) \div 3000
    - (16287 * (Math_min(p.sbp, 110) - 110)) \div 20
    + (32995 * (Math_max(p.sbp, 110) - 130)) \div 20
    + 67939 * p.dm
    + 31961 * p.smoking
    - (18571 * (Math_min(p.egfr, 60) - 60)) \div 15
    - (5535 * (Math_max(p.egfr, 60) - 90)) \div 15
    + 28940 * p.bptreat
    - 7569 * OrElse(p.statin, 0)
    - (5637 * p.bptreat * (Math_max(p.sbp, 110) - 130)) \div 20
    + (10710 * OrElse(p.statin, 0) * ((mmol_conversion(OrElse(p.tc, 0) - OrElse(p.hdl, 0)) - 350000) \div 100)) \div 1000
    - (7514 * (p.age - 55) * ((mmol_conversion(OrElse(p.tc, 0) - OrElse(p.hdl, 0)) - 350000) \div 100)) \div 10000
    + (3018 * (p.age - 55) * ((mmol_conversion(OrElse(p.hdl, 0)) - 130000) \div 100) * 10) \div 30000
    - (9988 * (p.age - 55) * (Math_max(p.sbp, 110) - 130)) \div 200
    - (32062 * (p.age - 55) * p.dm) \div 10
    - (16079 * (p.age - 55) * p.smoking) \div 10
    + (14508 * (p.age - 55) * (Math_min(p.egfr, 60) - 60)) \div 150

\* 10yr ASCVD log-odds, female, base model (lines 179-198), in units of 1/LogorScale.
logor_10yr_ASCVD_female_base(p) ==
    0 - 381998
    + (71988 * (p.age - 55)) \div 10
    + (11770 * ((mmol_conversion(OrElse(p.tc, 0)) - mmol_conversion(OrElse(p.hdl, 0)) - 350000) \div 100)) \div 1000
    - (15119 * ((mmol_conversion(OrElse(p.hdl, 0)) - 130000) \div 100) * 10) \div 3000
    - (8354 * (Math_min(p.sbp, 110) - 110)) \div 20
    + (35929 * (Math_max(p.sbp, 110) - 130)) \div 20
    + 83486 * p.dm
    + 48311 * p.smoking
    - (48646 * (Math_min(p.egfr, 60) - 60)) \div 15
    - (3978 * (Math_max(p.egfr, 60) - 90)) \div 15
    + 22653 * p.bptreat
    - 5924 * OrElse(p.statin, 0)
    - (3958 * p.bptreat * (Math_max(p.sbp, 110) - 130)) \div 20
    + (8444 * OrElse(p.statin, 0) * ((mmol_conversion(OrElse(p.tc, 0)) - mmol_conversion(OrElse(p.hdl, 0)) - 350000) \div 100)) \div 1000
    - (5678 * (p.age - 55) * ((mmol_conversion(OrElse(p.tc, 0)) - mmol_conversion(OrElse(p.hdl, 0)) - 350000) \div 100)) \div 10000
    + (3257 * (p.age - 55) * ((mmol_conversion(OrElse(p.hdl, 0)) - 130000) \div 100) * 10) \div 30000
    - (10360 * (p.age - 55) * (Math_max(p.sbp, 110) - 130)) \div 200
    - (24175 * (p.age - 55) * p.dm) \div 10
    - (7911 * (p.age - 55) * p.smoking) \div 10
    + (16715 * (p.age - 55) * (Math_min(p.egfr, 60) - 60)) \div 150

\* 30yr ASCVD log-odds, female, base model (lines 202-222), in units of 1/LogorScale.
logor_30yr_ASCVD_female_base(p) ==
    0 - 197407
    + (46692 * (p.age - 55)) \div 10
    - (8931 * (p.age - 55) * (p.age - 55)) \div 100
    + (12569 * ((mmol_conversion(OrElse(p.tc, 0)) - mmol_conversion(OrElse(p.hdl, 0)) - 350000) \div 100)) \div 1000
    - (15423 * ((mmol_conversion(OrElse(p.hdl, 0)) - 130000) \div 100) * 10) \div 3000
    - (181 * (Math_min(p.sbp, 110) - 110)) \div 20
    + (32295 * (Math_max(p.sbp, 110) - 130)) \div 20
    + 62967 * p.dm
    + 26829 * p.smoking
    - (10011 * (Math_min(p.egfr, 60) - 60)) \div 15
    - (4997 * (Math_max(p.egfr, 60) - 90)) \div 15
    + 18753 * p.bptreat
    + 1525 * OrElse(p.statin, 0)
    - (2761 * p.bptreat * (Math_max(p.sbp, 110) - 130)) \div 20
    + (7361 * OrElse(p.statin, 0) * ((mmol_conversion(OrElse(p.tc, 0)) - mmol_conversion(OrElse(p.hdl, 0)) - 350000) \div 100)) \div 1000
    - (5220 * (p.age - 55) * ((mmol_conversion(OrElse(p.tc, 0)) - mmol_conversion(OrElse(p.hdl, 0)) - 350000) \div 100)) \div 10000
    + (3169 * (p.age - 55) * ((mmol_conversion(OrElse(p.hdl, 0)) - 130000) \div 100) * 10) \div 30000
    - (10461 * (p.age - 55) * (Math_max(p.sbp, 110) - 130)) \div 200
    - (27278 * (p.age - 55) * p.dm) \div 10
    - (15309 * (p.age - 55) * p.smoking) \div 10
    + (12991 * (p.age - 55) * (Math_min(p.egfr, 60) - 60)) \div 150

\* 10yr HF log-odds, female, base model (lines 226-242), in units of 1/LogorScale.
logor_10yr_HF_female_base(p) ==
    0 - 431041
    + (89982 * (p.age - 55)) \div 10
    - (45598 * (Math_min(p.sbp, 110) - 110)) \div 20
    + (35765 * (Math_max(p.sbp, 110) - 130)) \div 20
    + 103835 * p.dm
    + 58392 * p.smoking
    - (723 * bmiSegmentLow(p)) \div 50
    + (29977 * bmiSegmentHigh(p)) \div 50
    - (74516 * (Math_min(p.egfr, 60) - 60)) \div 15
    - (5571 * (Math_max(p.egfr, 60) - 90)) \div 15
    + 35344 * p.bptreat
    - (9815 * p.bptreat * (Math_max(p.sbp, 110) - 130)) \div 20
    - (9467 * (p.age - 55) * (Math_max(p.sbp, 110) - 130)) \div 200
    - (35810 * (p.age - 55) * p.dm) \div 10
    - (11595 * (p.age - 55) * p.smoking) \div 10
    - (388 * (p.age - 55) * bmiSegmentHigh(p)) \div 500
    + (18843 * (p.age - 55) * (Math_min(p.egfr, 60) - 60)) \div 150

\* 30yr HF log-odds, female, base model (lines 246-263), in units of 1/LogorScale.
logor_30yr_HF_female_base(p) ==
    0 - 220538
    + (62544 * (p.age - 55)) \div 10
    - (9830 * (p.age - 55) * (p.age - 55)) \div 100
    - (39192 * (Math_min(p.sbp, 110) - 110)) \div 20
    + (31423 * (Math_max(p.sbp, 110) - 130)) \div 20
    + 83308 * p.dm
    + 34387 * p.smoking
    + (5949 * bmiSegmentLow(p)) \div 50
    + (25255 * bmiSegmentHigh(p)) \div 50
    - (29816 * (Math_min(p.egfr, 60) - 60)) \div 15
    - (6672 * (Math_max(p.egfr, 60) - 90)) \div 15
    + 33392 * p.bptreat
    - (8932 * p.bptreat * (Math_max(p.sbp, 110) - 130)) \div 20
    - (9743 * (p.age - 55) * (Math_max(p.sbp, 110) - 130)) \div 200
    - (40486 * (p.age - 55) * p.dm) \div 10
    - (19830 * (p.age - 55) * p.smoking) \div 10
    - (356 * (p.age - 55) * bmiSegmentHigh(p)) \div 500
    + (15642 * (p.age - 55) * (Math_min(p.egfr, 60) - 60)) \div 150

\* 10yr CVD log-odds, male, base model (lines 268-287), in units of 1/LogorScale.
logor_10yr_CVD_male_base(p) ==
    0 - 303117
    + (76885 * (p.age - 55)) \div 10
    + (7362 * ((mmol_conversion(OrElse(p.tc, 0) - OrElse(p.hdl, 0)) - 350000) \div 100)) \div 1000
    - (9544 * ((mmol_conversion(OrElse(p.hdl, 0)) - 130000) \div 100) * 10) \div 3000
    - (43473 * (Math_min(p.sbp, 110) - 110)) \div 20
    + (33627 * (Math_max(p.sbp, 110) - 130)) \div 20
    + 76929 * p.dm
    + 43869 * p.smoking
    - (53790 * (Math_min(p.egfr, 60) - 60)) \div 15
    - (1648 * (Math_max(p.egfr, 60) - 90)) \div 15
    + 28888 * p.bptreat
    - 13373 * OrElse(p.statin, 0)
    - (4759 * p.bptreat * (Math_max(p.sbp, 110) - 130)) \div 20
    + (15027 * OrElse(p.statin, 0) * ((mmol_conversion(OrElse(p.tc, 0) - OrElse(p.hdl, 0)) - 350000) \div 100)) \div 1000
    - (5179 * (p.age - 55) * ((mmol_conversion(OrElse(p.tc, 0) - OrElse(p.hdl, 0)) - 350000) \div 100)) \div 10000
    + (1912 * (p.age - 55) * ((mmol_conversion(OrElse(p.hdl, 0)) - 130000) \div 100) * 10) \div 30000
    - (10495 * (p.age - 55) * (Math_max(p.sbp, 110) - 130)) \div 200
    - (22519 * (p.age - 55) * p.dm) \div 10
    - (8951 * (p.age - 55) * p.smoking) \div 10
    + (15437 * (p.age - 55) * (Math_min(p.egfr, 60) - 60)) \div 150

\* 30yr CVD log-odds, male, base model (lines 291-311), in units of 1/LogorScale.
logor_30yr_CVD_male_base(p) ==
    0 - 114820
    + (46273 * (p.age - 55)) \div 10
    - (9843 * (p.age - 55) * (p.age - 55)) \div 100
    + (8361 * ((mmol_conversion(OrElse(p.tc, 0) - OrElse(p.hdl, 0)) - 350000) \div 100)) \div 1000
    - (10298 * ((mmol_conversion(OrElse(p.hdl, 0)) - 130000) \div 100) * 10) \div 3000
    - (21404 * (Math_min(p.sbp, 110) - 110)) \div 20
    + (29043 * (Math_max(p.sbp, 110) - 130)) \div 20
    + 53313 * p.dm
    + 21419 * p.smoking
    - (11556 * (Math_min(p.egfr, 60) - 60)) \div 15
    - (6038 * (Math_max(p.egfr, 60) - 90)) \div 15
    + 23271 * p.bptreat
    - 2721 * OrElse(p.statin, 0)
    - (3845 * p.bptreat * (Math_max(p.sbp, 110) - 130)) \div 20
    + (13419 * OrElse(p.statin, 0) * ((mmol_conversion(OrElse(p.tc, 0) - OrElse(p.hdl, 0)) - 350000) \div 100)) \div 1000
    - (5118 * (p.age - 55) * ((mmol_conversion(OrElse(p.tc, 0) - OrElse(p.hdl, 0)) - 350000) \div 100)) \div 10000
    + (1659 * (p.age - 55) * ((mmol_conversion(OrElse(p.hdl, 0)) - 130000) \div 100) * 10) \div 30000
    - (11014 * (p.age - 55) * (Math_max(p.sbp, 110) - 130)) \div 200
    - (25859 * (p.age - 55) * p.dm) \div 10
    - (15664 * (p.age - 55) * p.smoking) \div 10
    + (11668 * (p.age - 55) * (Math_min(p.egfr, 60) - 60)) \div 150

\* 10yr ASCVD log-odds, male, base model (lines 315-334), in units of 1/LogorScale.
logor_10yr_ASCVD_male_base(p) ==
    0 - 350066
    + (70998 * (p.age - 55)) \div 10
    + (16587 * ((mmol_conversion(OrElse(p.tc, 0)) - mmol_conversion(OrElse(p.hdl, 0)) - 350000) \div 100)) \div 1000
    - (11443 * ((mmol_conversion(OrElse(p.hdl, 0)) - 130000) \div 100) * 10) \div 3000
    - (28372 * (Math_min(p.sbp, 110) - 110)) \div 20
    + (32400 * (Math_max(p.sbp, 110) - 130)) \div 20
    + 71896 * p.dm
    + 39570 * p.smoking
    - (36901 * (Math_min(p.egfr, 60) - 60)) \div 15
    - (2036 * (Math_max(p.egfr, 60) - 90)) \div 15
    + 20365 * p.bptreat
    - 8656 * OrElse(p.statin, 0)
    - (3229 * p.bptreat * (Math_max(p.sbp, 110) - 130)) \div 20
    + (11456 * OrElse(p.statin, 0) * ((mmol_conversion(OrElse(p.tc, 0)) - mmol_conversion(OrElse(p.hdl, 0)) - 350000) \div 100)) \div 1000
    - (3000 * (p.age - 55) * ((mmol_conversion(OrElse(p.tc, 0)) - mmol_conversion(OrElse(p.hdl, 0)) - 350000) \div 100)) \div 10000
    + (2327 * (p.age - 55) * ((mmol_conversion(OrElse(p.hdl, 0)) - 130000) \div 100) * 10) \div 30000
    - (9270 * (p.age - 55) * (Math_max(p.sbp, 110) - 130)) \div 200
    - (20185 * (p.age - 55) * p.dm) \div 10
    - (9705 * (p.age - 55) * p.smoking) \div 10
    + (12171 * (p.age - 55) * (Math_min(p.egfr, 60) - 60)) \div 150

\* 30yr ASCVD log-odds, male, base model (lines 338-358), in units of 1/LogorScale.
logor_30yr_ASCVD_male_base(p) ==
    0 - 173644
    + (39941 * (p.age - 55)) \div 10
    - (9375 * (p.age - 55) * (p.age - 55)) \div 100
    + (17446 * ((mmol_conversion(OrElse(p.tc, 0)) - mmol_conversion(OrElse(p.hdl, 0)) - 350000) \div 100)) \div 1000
    - (12020 * ((mmol_conversion(OrElse(p.hdl, 0)) - 130000) \div 100) * 10) \div 3000
    - (6651 * (Math_min(p.sbp, 110) - 110)) \div 20
    + (27530 * (Math_max(p.sbp, 110) - 130)) \div 20
    + 47903 * p.dm
    + 17826 * p.smoking
    + (2188 * (Math_min(p.egfr, 60) - 60)) \div 15
    - (6026 * (Math_max(p.egfr, 60) - 90)) \div 15
    + 14212 * p.bptreat
    + 1360 * OrElse(p.statin, 0)
    - (2183 * p.bptreat * (Math_max(p.sbp, 110) - 130)) \div 20
    + (10131 * OrElse(p.statin, 0) * ((mmol_conversion(OrElse(p.tc, 0)) - mmol_conversion(OrElse(p.hdl, 0)) - 350000) \div 100)) \div 1000
    - (3126 * (p.age - 55) * ((mmol_conversion(OrElse(p.tc, 0)) - mmol_conversion(OrElse(p.hdl, 0)) - 350000) \div 100)) \div 10000
    + (2067 * (p.age - 55) * ((mmol_conversion(OrElse(p.hdl, 0)) - 130000) \div 100) * 10) \div 30000
    - (9209 * (p.age - 55) * (Math_max(p.sbp, 110) - 130)) \div 200
    - (21599 * (p.age - 55) * p.dm) \div 10
    - (15488 * (p.age - 55) * p.smoking) \div 10
    + (7125 * (p.age - 55) * (Math_min(p.egfr, 60) - 60)) \div 150

\* 10yr HF log-odds, male, base model (lines 362-378), in units of 1/LogorScale.
logor_10yr_HF_male_base(p) ==
    0 - 394639
    + (89726 * (p.age - 55)) \div 10
    - (68115 * (Math_min(p.sbp, 110) - 110)) \div 20
    + (36345 * (Math_max(p.sbp, 110) - 130)) \div 20
    + 92378 * p.dm
    + 50237 * p.smoking
    - (4858 * bmiSegmentLow(p)) \div 50
    + (37269 * bmiSegmentHigh(p)) \div 50
    - (69269 * (Math_min(p.egfr, 60) - 60)) \div 15
    - (2518 * (Math_max(p.egfr, 60) - 90)) \div 15
    + 29809 * p.bptreat
    - (4977 * p.bptreat * (Math_max(p.sbp, 110) - 130)) \div 20
    - (12892 * (p.age - 55) * (Math_max(p.sbp, 110) - 130)) \div 200
    - (30409 * (p.age - 55) * p.dm) \div 10
    - (14017 * (p.age - 55) * p.smoking) \div 10
    + (681 * (p.age - 55) * bmiSegmentHigh(p)) \div 500
    + (17978 * (p.age - 55) * (Math_min(p.egfr, 60) - 60)) \div 150

\* 30yr HF log-odds, male, base model (lines 382-399), in units of 1/LogorScale.
logor_30yr_HF_male_base(p) ==
    0 - 195751
    + (56815 * (p.age - 55)) \div 10
    - (10484 * (p.age - 55) * (p.age - 55)) \div 100
    - (47616 * (Math_min(p.sbp, 110) - 110)) \div 20
    + (30324 * (Math_max(p.sbp, 110) - 130)) \div 20
    + 68403 * p.dm
    + 26563 * p.smoking
    + (8331 * bmiSegmentLow(p)) \div 50
    + (26999 * bmiSegmentHigh(p)) \div 50
    - (25418 * (Math_min(p.egfr, 60) - 60)) \div 15
    - (6389 * (Math_max(p.egfr, 60) - 90)) \div 15
    + 25836 * p.bptreat
    - (3919 * p.bptreat * (Math_max(p.sbp, 110) - 130)) \div 20
    - (12691 * (p.age - 55) * (Math_max(p.sbp, 110) - 130)) \div 200
    - (32736 * (p.age - 55) * p.dm) \div 10
    - (20430 * (p.age - 55) * p.smoking) \div 10
    - (1828 * (p.age - 55) * bmiSegmentHigh(p)) \div 500
    + (13426 * (p.age - 55) * (Math_min(p.egfr, 60) - 60)) \div 150

\* 10yr CVD log-odds, female, full model (lines 550-572), in units of 1/LogorScale.
logor_10yr_CVD_female_full(p) ==
    0 - 386038
    + (77168 * (p.age - 55)) \div 10
    + (621 * ((mmol_conversion(OrElse(p.tc, 0) - OrElse(p.hdl, 0)) - 350000) \div 100)) \div 1000
    - (15478 * ((mmol_conversion(OrElse(p.hdl, 0)) - 130000) \div 100) * 10) \div 3000
    - (19331 * (Math_min(p.sbp, 110) - 110)) \div 20
    + (30712 * (Math_max(p.sbp, 110) - 130)) \div 20
    + 49675 * p.dm
    + 46660 * p.smoking
    - (47807 * (Math_min(p.egfr, 60) - 60)) \div 15
    - (5291 * (Math_max(p.egfr, 60) - 90)) \div 15
    + 30349 * p.bptreat
    - 15565 * OrElse(p.statin, 0)
    - (6670 * p.bptreat * (Math_max(p.sbp, 110) - 130)) \div 20
    + (10618 * OrElse(p.statin, 0) * ((mmol_conversion(OrElse(p.tc, 0) - OrElse(p.hdl, 0)) - 350000) \div 100)) \div 1000
    - (7423 * (p.age - 55) * ((mmol_conversion(OrElse(p.tc, 0) - OrElse(p.hdl, 0)) - 350000) \div 100)) \div 10000
    + (2882 * (p.age - 55) * ((mmol_conversion(OrElse(p.hdl, 0)) - 130000) \div 100) * 10) \div 30000
    - (8752 * (p.age - 55) * (Math_max(p.sbp, 110) - 130)) \div 200
    - (22671 * (p.age - 55) * p.dm) \div 10
    - (6761 * (p.age - 55) * p.smoking) \div 10
    + (14932 * (p.age - 55) * (Math_min(p.egfr, 60) - 60)) \div 150
    + getSdiTerm(p, 13620, 22616, 18045)
    + getUacrTerm(p, 16459, 1984)
    + getHba1cTerm(p, 12985, 14126, -317)

\* 10yr ASCVD log-odds, female, full model (lines 575-597), in units of 1/LogorScale.
logor_10yr_ASCVD_female_full(p) ==
    0 - 429150
    + (70231 * (p.age - 55)) \div 10
    + (8988 * ((mmol_conversion(OrElse(p.tc, 0)) - mmol_conversion(OrElse(p.hdl, 0)) - 350000) \div 100)) \div 1000
    - (14073 * ((mmol_conversion(OrElse(p.hdl, 0)) - 130000) \div 100) * 10) \div 3000
    - (2566 * (Math_min(p.sbp, 110) - 110)) \div 20
    + (31451 * (Math_max(p.sbp, 110) - 130)) \div 20
    + 47992 * p.dm
    + 40620 * p.smoking
    - (38477 * (Math_min(p.egfr, 60) - 60)) \div 15
    - (4952 * (Math_max(p.egfr, 60) - 90)) \div 15
    + 21339 * p.bptreat
    - 6786 * OrElse(p.statin, 0)
    - (4514 * p.bptreat * (Math_max(p.sbp, 110) - 130)) \div 20
    + (7882 * OrElse(p.statin, 0) * ((mmol_conversion(OrElse(p.tc, 0)) - mmol_conversion(OrElse(p.hdl, 0)) - 350000) \div 100)) \div 1000
    - (5360 * (p.age - 55) * ((mmol_conversion(OrElse(p.tc, 0)) - mmol_conversion(OrElse(p.hdl, 0)) - 350000) \div 100)) \div 10000
    + (2918 * (p.age - 55) * ((mmol_conversion(OrElse(p.hdl, 0)) - 130000) \div 100) * 10) \div 30000
    - (9618 * (p.age - 55) * (Math_max(p.sbp, 110) - 130)) \div 200
    - (20015 * (p.age - 55) * p.dm) \div 10
    - (5865 * (p.age - 55) * p.smoking) \div 10
    + (15378 * (p.age - 55) * (Math_min(p.egfr, 60) - 60)) \div 150
    + getSdiTerm(p, 14140, 22814, 15889)
    + getUacrTerm(p, 13718, 616)
    + getHba1cTerm(p, 12319, 14106, 587)

\* 10yr HF log-odds, female, full model (lines 600-619), in units of 1/LogorScale.
logor_10yr_HF_female_full(p) ==
    0 - 489652
    + (88421 * (p.age - 55)) \div 10
    - (42147 * (Math_min(p.sbp, 110) - 110)) \div 20
    + (30029 * (Math_max(p.sbp, 110) - 130)) \div 20
    + 61704 * p.dm
    + 53803 * p.smoking
    - (1913 * bmiSegmentLow(p)) \div 50
    + (27643 * bmiSegmentHigh(p)) \div 50
    - (59758 * (Math_min(p.egfr, 60) - 60)) \div 15
    - (6542 * (Math_max(p.egfr, 60) - 90)) \div 15
    + 33136 * p.bptreat
    - (10023 * p.bptreat * (Math_max(p.sbp, 110) - 130)) \div 20
    - (8454 * (p.age - 55) * (Math_max(p.sbp, 110) - 130)) \div 200
    - (29891 * (p.age - 55) * p.dm) \div 10
    - (11114 * (p.age - 55) * p.smoking) \div 10
    + (81 * (p.age - 55) * bmiSegmentHigh(p)) \div 500
    + (16666 * (p.age - 55) * (Math_min(p.egfr, 60) - 60)) \div 150
    + getSdiTerm(p, 12130, 23141, 18191)
    + getUacrTerm(p, 19481, 3954)
    + getHba1cTerm(p, 17667, 16149, -106)

\* 30yr CVD log-odds, female, full model (lines 623-646), in units of 1/LogorScale.
logor_30yr_CVD_female_full(p) ==
    0 - 174848
    + (50737 * (p.age - 55)) \div 10
    - (9818 * (p.age - 55) * (p.age - 55)) \div 100
    + (1623 * ((mmol_conversion(OrElse(p.tc, 0) - OrElse(p.hdl, 0)) - 350000) \div 100)) \div 1000
    - (16171 * ((mmol_conversion(OrElse(p.hdl, 0)) - 130000) \div 100) * 10) \div 3000
    - (11112 * (Math_min(p.sbp, 110) - 110)) \div 20
    + (28295 * (Math_max(p.sbp, 110) - 130)) \div 20
    + 40041 * p.dm
    + 29187 * p.smoking
    - (10171 * (Math_min(p.egfr, 60) - 60)) \div 15
    - (6226 * (Math_max(p.egfr, 60) - 90)) \div 15
    + 28724 * p.bptreat
    - 7681 * OrElse(p.statin, 0)
    - (5573 * p.bptreat * (Math_max(p.sbp, 110) - 130)) \div 20
    + (9176 * OrElse(p.statin, 0) * ((mmol_conversion(OrElse(p.tc, 0) - OrElse(p.hdl, 0)) - 350000) \div 100)) \div 1000
    - (6791 * (p.age - 55) * ((mmol_conversion(OrElse(p.tc, 0) - OrElse(p.hdl, 0)) - 350000) \div 100)) \div 10000
    + (2908 * (p.age - 55) * ((mmol_conversion(OrElse(p.hdl, 0)) - 130000) \div 100) * 10) \div 30000
    - (9078 * (p.age - 55) * (Math_max(p.sbp, 110) - 130)) \div 200
    - (27021 * (p.age - 55) * p.dm) \div 10
    - (13732 * (p.age - 55) * p.smoking) \div 10
    + (12559 * (p.age - 55) * (Math_min(p.egfr, 60) - 60)) \div 150
    + getSdiTerm(p, 10677, 18531, 15671)
    + getUacrTerm(p, 10281, -62)
    + getHba1cTerm(p, 9253, 9756, 1017)

\* 30yr ASCVD log-odds, female, full model (lines 649-672), in units of 1/LogorScale.
logor_30yr_ASCVD_female_full(p) ==
    0 - 231407
    + (43867 * (p.age - 55)) \div 10
    - (9220 * (p.age - 55) * (p.age - 55)) \div 100
    + (9777 * ((mmol_conversion(OrElse(p.tc, 0)) - mmol_conversion(OrElse(p.hdl, 0)) - 350000) \div 100)) \div 1000
    - (14535 * ((mmol_conversion(OrElse(p.hdl, 0)) - 130000) \div 100) * 10) \div 3000
    + (5909 * (Math_min(p.sbp, 110) - 110)) \div 20
    + (28629 * (Math_max(p.sbp, 110) - 130)) \div 20
    + 36691 * p.dm
    + 23547 * p.smoking
    - (3543 * (Math_min(p.egfr, 60) - 60)) \div 15
    - (5731 * (Math_max(p.egfr, 60) - 90)) \div 15
    + 18401 * p.bptreat
    + 1175 * OrElse(p.statin, 0)
    - (3319 * p.bptreat * (Math_max(p.sbp, 110) - 130)) \div 20
    + (6643 * OrElse(p.statin, 0) * ((mmol_conversion(OrElse(p.tc, 0)) - mmol_conversion(OrElse(p.hdl, 0)) - 350000) \div 100)) \div 1000
    - (4928 * (p.age - 55) * ((mmol_conversion(OrElse(p.tc, 0)) - mmol_conversion(OrElse(p.hdl, 0)) - 350000) \div 100)) \div 10000
    + (2889 * (p.age - 55) * ((mmol_conversion(OrElse(p.hdl, 0)) - 130000) \div 100) * 10) \div 30000
    - (9647 * (p.age - 55) * (Math_max(p.sbp, 110) - 130)) \div 200
    - (22796 * (p.age - 55) * p.dm) \div 10
    - (12040 * (p.age - 55) * p.smoking) \div 10
    + (11576 * (p.age - 55) * (Math_min(p.egfr, 60) - 60)) \div 150
    + getSdiTerm(p, 11076, 18404, 13090)
    + getUacrTerm(p, 8107, -1478)
    + getHba1cTerm(p, 7947, 10026, 1730)

\* 30yr HF log-odds, female, full model (lines 675-695), in units of 1/LogorScale.
logor_30yr_HF_female_full(p) ==
    0 - 264221
    + (59275 * (p.age - 55)) \div 10
    - (10288 * (p.age - 55) * (p.age - 55)) \div 100
    - (35938 * (Math_min(p.sbp, 110) - 110)) \div 20
    + (26286 * (Math_max(p.sbp, 110) - 130)) \div 20
    + 51135 * p.dm
    + 34734 * p.smoking
    + (5647 * bmiSegmentLow(p)) \div 50
    + (23639 * bmiSegmentHigh(p)) \div 50
    - (19713 * (Math_min(p.egfr, 60) - 60)) \div 15
    - (7352 * (Math_max(p.egfr, 60) - 90)) \div 15
    + 32194 * p.bptreat
    - (8803 * p.bptreat * (Math_max(p.sbp, 110) - 130)) \div 20
    - (8631 * (p.age - 55) * (Math_max(p.sbp, 110) - 130)) \div 200
    - (34254 * (p.age - 55) * p.dm) \div 10
    - (18140 * (p.age - 55) * p.smoking) \div 10
    + (313 * (p.age - 55) * bmiSegmentHigh(p)) \div 500
    + (13570 * (p.age - 55) * (Math_min(p.egfr, 60) - 60)) \div 150
    + getSdiTerm(p, 8476, 18397, 14858)
    + getUacrTerm(p, 12733, 1670)
    + getHba1cTerm(p, 13783, 11388, 1390)

\* 10yr CVD log-odds, male, full model (lines 700-722), in units of 1/LogorScale.
logor_10yr_CVD_male_full(p) ==
    0 - 363139
    + (78476 * (p.age - 55)) \div 10
    + (5345 * ((mmol_conversion(OrElse(p.tc, 0) - OrElse(p.hdl, 0)) - 350000) \div 100)) \div 1000
    - (9113 * ((mmol_conversion(OrElse(p.hdl, 0)) - 130000) \div 100) * 10) \div 3000
    - (49220 * (Math_min(p.sbp, 110) - 110)) \div 20
    + (29724 * (Math_max(p.sbp, 110) - 130)) \div 20
    + 45271 * p.dm
    + 37266 * p.smoking
    - (38869 * (Math_min(p.egfr, 60) - 60)) \div 15
    - (817 * (Math_max(p.egfr, 60) - 90)) \div 15
    + 25081 * p.bptreat
    - 15385 * OrElse(p.statin, 0)
    - (4747 * p.bptreat * (Math_max(p.sbp, 110) - 130)) \div 20
    + (14154 * OrElse(p.statin, 0) * ((mmol_conversion(OrElse(p.tc, 0) - OrElse(p.hdl, 0)) - 350000) \div 100)) \div 1000
    - (4365 * (p.age - 55) * ((mmol_conversion(OrElse(p.tc, 0) - OrElse(p.hdl, 0)) - 350000) \div 100)) \div 10000
    + (1995 * (p.age - 55) * ((mmol_conversion(OrElse(p.hdl, 0)) - 130000) \div 100) * 10) \div 30000
    - (10227 * (p.age - 55) * (Math_max(p.sbp, 110) - 130)) \div 200
    - (17625 * (p.age - 55) * p.dm) \div 10
    - (7159 * (p.age - 55) * p.smoking) \div 10
    + (14287 * (p.age - 55) * (Math_min(p.egfr, 60) - 60)) \div 150
    + getSdiTerm(p, 8024, 27507, 14476)
    + getUacrTerm(p, 17729, 10957)
    + getHba1cTerm(p, 11657, 10483, -2301)

\* 10yr ASCVD log-odds, male, full model (lines 725-747), in units of 1/LogorScale.
logor_10yr_ASCVD_male_full(p) ==
    0 - 396979
    + (71287 * (p.age - 55)) \div 10
    + (14652 * ((mmol_conversion(OrElse(p.tc, 0)) - mmol_conversion(OrElse(p.hdl, 0)) - 350000) \div 100)) \div 1000
    - (11258 * ((mmol_conversion(OrElse(p.hdl, 0)) - 130000) \div 100) * 10) \div 3000
    - (33872 * (Math_min(p.sbp, 110) - 110)) \div 20
    + (29803 * (Math_max(p.sbp, 110) - 130)) \div 20
    + 39958 * p.dm
    + 33791 * p.smoking
    - (25826 * (Math_min(p.egfr, 60) - 60)) \div 15
    - (1478 * (Math_max(p.egfr, 60) - 90)) \div 15
    + 16866 * p.bptreat
    - 10736 * OrElse(p.statin, 0)
    - (3810 * p.bptreat * (Math_max(p.sbp, 110) - 130)) \div 20
    + (10342 * OrElse(p.statin, 0) * ((mmol_conversion(OrElse(p.tc, 0)) - mmol_conversion(OrElse(p.hdl, 0)) - 350000) \div 100)) \div 1000
    - (2288 * (p.age - 55) * ((mmol_conversion(OrElse(p.tc, 0)) - mmol_conversion(OrElse(p.hdl, 0)) - 350000) \div 100)) \div 10000
    + (2675 * (p.age - 55) * ((mmol_conversion(OrElse(p.hdl, 0)) - 130000) \div 100) * 10) \div 30000
    - (8974 * (p.age - 55) * (Math_max(p.sbp, 110) - 130)) \div 200
    - (14975 * (p.age - 55) * p.dm) \div 10
    - (7721 * (p.age - 55) * p.smoking) \div 10
    + (11984 * (p.age - 55) * (Math_min(p.egfr, 60) - 60)) \div 150
    + getSdiTerm(p, 6511, 26767, 13885)
    + getUacrTerm(p, 13758, 6529)
    + getHba1cTerm(p, 10128, 10927, -1129)

\* 10yr HF log-odds, male, full model (lines 750-769), in units of 1/LogorScale.
logor_10yr_HF_male_full(p) ==
    0 - 466351
    + (90957 * (p.age - 55)) \div 10
    - (67652 * (Math_min(p.sbp, 110) - 110)) \div 20
    + (31117 * (Math_max(p.sbp, 110) - 130)) \div 20
    + 55351 * p.dm
    + 43268 * p.smoking
    - (8543 * bmiSegmentLow(p)) \div 50
    + (35517 * bmiSegmentHigh(p)) \div 50
    - (51022 * (Math_min(p.egfr, 60) - 60)) \div 15
    - (1547 * (Math_max(p.egfr, 60) - 90)) \div 15
    + 25710 * p.bptreat
    - (5912 * p.bptreat * (Math_max(p.sbp, 110) - 130)) \div 20
    - (12191 * (p.age - 55) * (Math_max(p.sbp, 110) - 130)) \div 200
    - (24376 * (p.age - 55) * p.dm) \div 10
    - (10536 * (p.age - 55) * p.smoking) \div 10
    + (379 * (p.age - 55) * bmiSegmentHigh(p)) \div 500
    + (16602 * (p.age - 55) * (Math_min(p.egfr, 60) - 60)) \div 150
    + getSdiTerm(p, 11064, 33712, 16946)
    + getUacrTerm(p, 21646, 17028)
    + getHba1cTerm(p, 14830, 12341, -2346)

\* 30yr CVD log-odds, male, full model (lines 773-796), in units of 1/LogorScale.
logor_30yr_CVD_male_full(p) ==
    0 - 150456
    + (44276 * (p.age - 55)) \div 10
    - (10641 * (p.age - 55) * (p.age - 55)) \div 100
    + (6294 * ((mmol_conversion(OrElse(p.tc, 0) - OrElse(p.hdl, 0)) - 350000) \div 100)) \div 1000
    - (10154 * ((mmol_conversion(OrElse(p.hdl, 0)) - 130000) \div 100) * 10) \div 3000
    - (25423 * (Math_min(p.sbp, 110) - 110)) \div 20
    + (25497 * (Math_max(p.sbp, 110) - 130)) \div 20
    + 33384 * p.dm
    + 18738 * p.smoking
    - (2461 * (Math_min(p.egfr, 60) - 60)) \div 15
    - (5520 * (Math_max(p.egfr, 60) - 90)) \div 15
    + 19797 * p.bptreat
    - 4077 * OrElse(p.statin, 0)
    - (3655 * p.bptreat * (Math_max(p.sbp, 110) - 130)) \div 20
    + (12328 * OrElse(p.statin, 0) * ((mmol_conversion(OrElse(p.tc, 0) - OrElse(p.hdl, 0)) - 350000) \div 100)) \div 1000
    - (4413 * (p.age - 55) * ((mmol_conversion(OrElse(p.tc, 0) - OrElse(p.hdl, 0)) - 350000) \div 100)) \div 10000
    + (1779 * (p.age - 55) * ((mmol_conversion(OrElse(p.hdl, 0)) - 130000) \div 100) * 10) \div 30000
    - (10467 * (p.age - 55) * (Math_max(p.sbp, 110) - 130)) \div 200
    - (21161 * (p.age - 55) * p.dm) \div 10
    - (12779 * (p.age - 55) * p.smoking) \div 10
    + (9559 * (p.age - 55) * (Math_min(p.egfr, 60) - 60)) \div 150
    + getSdiTerm(p, 2567, 18876, 8924)
    + getUacrTerm(p, 8946, 7101)
    + getHba1cTerm(p, 6762, 6341, 388)

\* 30yr ASCVD log-odds, male, full model (lines 799-822), in units of 1/LogorScale.
logor_30yr_ASCVD_male_full(p) ==
    0 - 198537
    + (37436 * (p.age - 55)) \div 10
    - (9955 * (p.age - 55) * (p.age - 55)) \div 100
    + (15448 * ((mmol_conversion(OrElse(p.tc, 0)) - mmol_conversion(OrElse(p.hdl, 0)) - 350000) \div 100)) \div 1000
    - (12153 * ((mmol_conversion(OrElse(p.hdl, 0)) - 130000) \div 100) * 10) \div 3000
    - (10840 * (Math_min(p.sbp, 110) - 110)) \div 20
    + (25552 * (Math_max(p.sbp, 110) - 130)) \div 20
    + 26970 * p.dm
    + 16284 * p.smoking
    + (7751 * (Math_min(p.egfr, 60) - 60)) \div 15
    - (5834 * (Math_max(p.egfr, 60) - 90)) \div 15
    + 11203 * p.bptreat
    - 251 * OrElse(p.statin, 0)
    - (2561 * p.bptreat * (Math_max(p.sbp, 110) - 130)) \div 20
    + (8867 * OrElse(p.statin, 0) * ((mmol_conversion(OrElse(p.tc, 0)) - mmol_conversion(OrElse(p.hdl, 0)) - 350000) \div 100)) \div 1000
    - (2545 * (p.age - 55) * ((mmol_conversion(OrElse(p.tc, 0)) - mmol_conversion(OrElse(p.hdl, 0)) - 350000) \div 100)) \div 10000
    + (2446 * (p.age - 55) * ((mmol_conversion(OrElse(p.hdl, 0)) - 130000) \div 100) * 10) \div 30000
    - (8691 * (p.age - 55) * (Math_max(p.sbp, 110) - 130)) \div 200
    - (16574 * (p.age - 55) * p.dm) \div 10
    - (12447 * (p.age - 55) * p.smoking) \div 10
    + (6246 * (p.age - 55) * (Math_min(p.egfr, 60) - 60)) \div 150
    + getSdiTerm(p, 1568, 18642, 8457)
    + getUacrTerm(p, 5602, 2522)
    + getHba1cTerm(p, 5014, 7229, 1149)

\* 30yr HF log-odds, male, full model (lines 825-845), in units of 1/LogorScale.
logor_30yr_HF_male_full(p) ==
    0 - 242544
    + (54788 * (p.age - 55)) \div 10
    - (11119 * (p.age - 55) * (p.age - 55)) \div 100
    - (45473 * (Math_min(p.sbp, 110) - 110)) \div 20
    + (25276 * (Math_max(p.sbp, 110) - 130)) \div 20
    + 43854 * p.dm
    + 23980 * p.smoking
    + (6409 * bmiSegmentLow(p)) \div 50
    + (26431 * bmiSegmentHigh(p)) \div 50
    - (13546 * (Math_min(p.egfr, 60) - 60)) \div 15
    - (5707 * (Math_max(p.egfr, 60) - 90)) \div 15
    + 22067 * p.bptreat
    - (4368 * p.bptreat * (Math_max(p.sbp, 110) - 130)) \div 20
    - (11684 * (p.age - 55) * (Math_max(p.sbp, 110) - 130)) \div 200
    - (27301 * (p.age - 55) * p.dm) \div 10
    - (15737 * (p.age - 55) * p.smoking) \div 10
    - (1750 * (p.age - 55) * bmiSegmentHigh(p)) \div 500
    + (11287 * (p.age - 55) * (Math_min(p.egfr, 60) - 60)) \div 150
    + getSdiTerm(p, 5775, 24464, 10768)
    + getUacrTerm(p, 12335, 12748)
    + getHba1cTerm(p, 9851, 8048, 228)

----------------------------------------------------------------------------
\* The nullification rules, in the order of the source.  Each takes the input
\* record p and the result record r so far.

AllNull(m) ==
    [prevent_10yr_CVD |-> Null, prevent_30yr_CVD |-> Null,
     prevent_10yr_ASCVD |-> Null, prevent_30yr_ASCVD |-> Null,
     prevent_10yr_HF |-> Null, prevent_30yr_HF |-> Null, model |-> m]

NullCvdAscvd(r) ==
    [r EXCEPT !.prevent_10yr_CVD = Null, !.prevent_30yr_CVD = Null,
              !.prevent_10yr_ASCVD = Null, !.prevent_30yr_ASCVD = Null]

NullHf(r) == [r EXCEPT !.prevent_10yr_HF = Null, !.prevent_30yr_HF = Null]

NullSix(r) == NullHf(NullCvdAscvd(r))

\* Faulty variant of base_cholesterolRule: the HDL block is left out.
base_cholesterolRule_tcOnly(p, r) ==
    IF Falsy(p.tc) THEN NullCvdAscvd(r)
    ELSE IF p.tc[1] < 130 \/ p.tc[1] > 320 THEN NullCvdAscvd(r) ELSE r

\* base_cholesterolRule nulling the HF fields too.
base_cholesterolRule_nullsAll(p, r) ==
    LET r1 == IF Falsy(p.tc) THEN NullSix(r)
              ELSE IF p.tc[1] < 130 \/ p.tc[1] > 320 THEN NullSix(r) ELSE r
    IN  IF Falsy(p.hdl) THEN NullSix(r1)
        ELSE IF p.hdl[1] < 20 \/ p.hdl[1] > 100 THEN NullSix(r1) ELSE r1

\* preventBase: if (!tc || tc < 130 || tc > 320), if (!hdl || hdl < 20 || hdl > 100)
base_cholesterolRule(p, r) ==
    LET r1 == IF Falsy(p.tc) THEN NullCvdAscvd(r)
              ELSE IF p.tc[1] < 130 \/ p.tc[1] > 320 THEN NullCvdAscvd(r) ELSE r
    IN  IF Falsy(p.hdl) THEN NullCvdAscvd(r1)
        ELSE IF p.hdl[1] < 20 \/ p.hdl[1] > 100 THEN NullCvdAscvd(r1) ELSE r1

\* Faulty variant of base_globalRule: egfr < 0 where the source has egfr <= 0.
base_globalRule_egfrStrict(p, r) ==
    LET r1 == IF p.sbp < 90 \/ p.sbp > 200 THEN NullSix(r) ELSE r
    IN  IF p.egfr < 0 THEN NullSix(r1) ELSE r1

\* preventBase: if (sbp < 90 || sbp > 200), if (egfr <= 0)
base_globalRule(p, r) ==
    LET r1 == IF p.sbp < 90 \/ p.sbp > 200 THEN NullSix(r) ELSE r
    IN  IF p.egfr <= 0 THEN NullSix(r1) ELSE r1

\* Faulty variant of base_statinRule: an undefined statin nulls nothing.
base_statinRule_never(p, r) == r

\* preventBase: if (statin === undefined)
base_statinRule(p, r) == IF p.statin = undefined THEN NullCvdAscvd(r) ELSE r

\* Faulty variant of base_bmiRule: bmi > 40 where the source has bmi >= 40.
base_bmiRule_inclusive40(p, r) ==
    IF Falsy(p.bmi) THEN NullHf(r)
    ELSE IF p.bmi[1] < 185 \/ p.bmi[1] > 400 THEN NullHf(r) ELSE r

\* preventBase: if (!bmi || bmi < 18.5 || bmi >= 40)
base_bmiRule(p, r) ==
    IF Falsy(p.bmi) THEN NullHf(r)
    ELSE IF p.bmi[1] < 185 \/ p.bmi[1] >= 400 THEN NullHf(r) ELSE r

\* preventFull: the same four blocks.
full_cholesterolRule(p, r) ==
    LET r1 == IF Falsy(p.tc) THEN NullCvdAscvd(r)
              ELSE IF p.tc[1] < 130 \/ p.tc[1] > 320 THEN NullCvdAscvd(r) ELSE r
    IN  IF Falsy(p.hdl) THEN NullCvdAscvd(r1)
        ELSE IF p.hdl[1] < 20 \/ p.hdl[1] > 100 THEN NullCvdAscvd(r1) ELSE r1

\* full_globalRule without the egfr block.
full_globalRule_noEgfr(p, r) == IF p.sbp < 90 \/ p.sbp > 200 THEN NullSix(r) ELSE r

full_globalRule(p, r) ==
    LET r1 == IF p.sbp < 90 \/ p.sbp > 200 THEN NullSix(r) ELSE r
    IN  IF p.egfr <= 0 THEN NullSix(r1) ELSE r1

full_statinRule(p, r) == IF p.statin = undefined THEN NullCvdAscvd(r) ELSE r

\* full_bmiRule with an else branch that writes the HF fields back.
full_bmiRule_writesBack(p, r) ==
    IF Falsy(p.bmi) THEN NullHf(r)
    ELSE IF p.bmi[1] < 185 \/ p.bmi[1] >= 400 THEN NullHf(r)
    ELSE [r EXCEPT !.prevent_10yr_HF = Num(0), !.prevent_30yr_HF = Num(0)]

full_bmiRule(p, r) ==
    IF Falsy(p.bmi) THEN NullHf(r)
    ELSE IF p.bmi[1] < 185 \/ p.bmi[1] >= 400 THEN NullHf(r) ELSE r

\* full_optionalRule without the uacr block.
full_optionalRule_noUacr(p, r) ==
    LET r2 == IF p.hba1c # undefined
              THEN (IF p.hba1c[1] <= 0 THEN NullSix(r) ELSE r) ELSE r
    IN  IF p.sdi # undefined
        THEN (IF p.sdi[1] < 1 \/ p.sdi[1] > 10 THEN NullSix(r2) ELSE r2) ELSE r2

\* Faulty variant of full_optionalRule: uacr <= 0 where the source has uacr < 0.
full_optionalRule_uacrZero(p, r) ==
    LET r1 == IF p.uacr # undefined
              THEN (IF p.uacr[1] <= 0 THEN NullSix(r) ELSE r) ELSE r
        r2 == IF p.hba1c # undefined
              THEN (IF p.hba1c[1] <= 0 THEN NullSix(r1) ELSE r1) ELSE r1
    IN  IF p.sdi # undefined
        THEN (IF p.sdi[1] < 1 \/ p.sdi[1] > 10 THEN NullSix(r2) ELSE r2) ELSE r2

\* preventFull: if (uacr !== undefined && uacr < 0), if (hba1c !== undefined &&
\* hba1c <= 0), if (sdi !== undefined && (sdi < 1 || sdi > 10))
full_optionalRule(p, r) ==
    LET r1 == IF p.uacr # undefined
              THEN (IF p.uacr[1] < 0 THEN NullSix(r) ELSE r) ELSE r
        r2 == IF p.hba1c # undefined
              THEN (IF p.hba1c[1] <= 0 THEN NullSix(r1) ELSE r1) ELSE r1
    IN  IF p.sdi # undefined
        THEN (IF p.sdi[1] < 1 \/ p.sdi[1] > 10 THEN NullSix(r2) ELSE r2) ELSE r2

----------------------------------------------------------------------------
\* The two models and the selector.

\* Faulty variant of calculate30yr: age < 59 where the source has age <= 59.
calculate30yr_strict(p) == p.age < 59

\* const calculate30yr = age <= 59
calculate30yr(p) == p.age <= 59

\* preventBase: if (sex !== 0 && sex !== 1) return ...; if (age < 30 || age > 79) return ...
base_requiredInvalid(p) == (p.sex # 0 /\ p.sex # 1) \/ (p.age < 30 \/ p.age > 79)

preventBase(p) ==
    IF base_requiredInvalid(p) THEN AllNull("base")
    ELSE LET f == p.sex = 1
             raw ==
               [prevent_10yr_CVD |-> toPercent(
                    IF f THEN logor_10yr_CVD_female_base(p) ELSE logor_10yr_CVD_male_base(p)),
                prevent_10yr_ASCVD |-> toPercent(
                    IF f THEN logor_10yr_ASCVD_female_base(p) ELSE logor_10yr_ASCVD_male_base(p)),
                prevent_10yr_HF |-> toPercent(
                    IF f THEN logor_10yr_HF_female_base(p) ELSE logor_10yr_HF_male_base(p)),
                prevent_30yr_CVD |->
                    IF calculate30yr(p)
                    THEN toPercent(IF f THEN logor_30yr_CVD_female_base(p)
                                        ELSE logor_30yr_CVD_male_base(p))
                    ELSE Null,
                prevent_30yr_ASCVD |->
                    IF calculate30yr(p)
                    THEN toPercent(IF f THEN logor_30yr_ASCVD_female_base(p)
                                        ELSE logor_30yr_ASCVD_male_base(p))
                    ELSE Null,
                prevent_30yr_HF |->
                    IF calculate30yr(p)
                    THEN toPercent(IF f THEN logor_30yr_HF_female_base(p)
                                        ELSE logor_30yr_HF_male_base(p))
                    ELSE Null,
                model |-> "base"]
         IN  base_bmiRule(p, base_statinRule(p,
                 base_globalRule(p, base_cholesterolRule(p, raw))))

\* The percentage of a full-model log-odds sum: NaN when the UACR term is NaN.
full_toPercent(p, x) == IF logIsNaN(p) THEN NaN ELSE toPercent(x)

\* Faulty variant of full_requiredInvalid: age > 80 where the source has age > 79.
full_requiredInvalid_age80(p) == (p.sex # 0 /\ p.sex # 1) \/ (p.age < 30 \/ p.age > 80)

\* preventFull: the same two early returns.
full_requiredInvalid(p) == (p.sex # 0 /\ p.sex # 1) \/ (p.age < 30 \/ p.age > 79)

preventFull(p) ==
    IF full_requiredInvalid(p) THEN AllNull("full")
    ELSE LET f == p.sex = 1
             raw ==
               [prevent_10yr_CVD |-> full_toPercent(p,
                    IF f THEN logor_10yr_CVD_female_full(p) ELSE logor_10yr_CVD_male_full(p)),
                prevent_10yr_ASCVD |-> full_toPercent(p,
                    IF f THEN logor_10yr_ASCVD_female_full(p) ELSE logor_10yr_ASCVD_male_full(p)),
                prevent_10yr_HF |-> full_toPercent(p,
                    IF f THEN logor_10yr_HF_female_full(p) ELSE logor_10yr_HF_male_full(p)),
                prevent_30yr_CVD |->
                    IF calculate30yr(p)
                    THEN full_toPercent(p, IF f THEN logor_30yr_CVD_female_full(p)
                                                ELSE logor_30yr_CVD_male_full(p))
                    ELSE Null,
                prevent_30yr_ASCVD |->
                    IF calculate30yr(p)
                    THEN full_toPercent(p, IF f THEN logor_30yr_ASCVD_female_full(p)
                                                ELSE logor_30yr_ASCVD_male_full(p))
                    ELSE Null,
                prevent_30yr_HF |->
                    IF calculate30yr(p)
                    THEN full_toPercent(p, IF f THEN logor_30yr_HF_female_full(p)
                                                ELSE logor_30yr_HF_male_full(p))
                    ELSE Null,
                model |-> "full"]
         IN  full_optionalRule(p, full_bmiRule(p, full_statinRule(p,
                 full_globalRule(p, full_cholesterolRule(p, raw)))))

\* Faulty variant of hasOptionalVars: only uacr selects the full model.
hasOptionalVars_uacrOnly(p) == p.uacr # undefined

\* const hasOptionalVars = params.uacr !== undefined || params.hba1c !== undefined
\*     || params.sdi !== undefined
hasOptionalVars(p) == p.uacr # undefined \/ p.hba1c # undefined \/ p.sdi # undefined

calculatePreventRisk(p) ==
    IF hasOptionalVars(p) THEN preventFull(p) ELSE preventBase(p)

\* risk < limit on doubles (false when risk is NaN); limit in 1/PercentScale.
LessThan(risk, limit) ==
    risk.k = "num" /\ risk.v < limit

\* The labels are written without their diacritics.
interpretRisk(risk, type, timeframe) ==
    IF risk = Null THEN "Nao calculavel com os dados fornecidos"
    ELSE IF type = "ASCVD" /\ timeframe = "10yr"
    THEN IF LessThan(risk, 500) THEN "Baixo risco"
         ELSE IF LessThan(risk, 750) THEN "Risco intermediario"
         ELSE IF LessThan(risk, 2000) THEN "Alto risco"
         ELSE "Muito alto risco"
    ELSE IF LessThan(risk, 500) THEN "Baixo risco"
         ELSE IF LessThan(risk, 1000) THEN "Risco intermediario baixo"
         ELSE IF LessThan(risk, 2000) THEN "Risco intermediario alto"
         ELSE "Alto risco"

----------------------------------------------------------------------------
\* The callers of the engine: a call starts from one of the documented
\* patients, with up to MaxEdits fields replaced by boundary or invalid values.

MaxEdits == 2

\* Caso 1, Caso 2 and Caso 3 of TESTE_CASOS_CLINICOS.md.
Caso1 ==
    [sex |-> 0, age |-> 45, tc |-> Some(180), hdl |-> Some(50), sbp |-> 120,
     dm |-> 0, smoking |-> 0, bmi |-> Some(240), egfr |-> 95, bptreat |-> 0,
     statin |-> Some(0), uacr |-> undefined, hba1c |-> undefined, sdi |-> undefined]

Caso2 ==
    [sex |-> 1, age |-> 65, tc |-> Some(250), hdl |-> Some(35), sbp |-> 160,
     dm |-> 1, smoking |-> 1, bmi |-> Some(320), egfr |-> 65, bptreat |-> 1,
     statin |-> Some(0), uacr |-> undefined, hba1c |-> undefined, sdi |-> undefined]

Caso3 ==
    [sex |-> 0, age |-> 55, tc |-> Some(200), hdl |-> Some(40), sbp |-> 140,
     dm |-> 1, smoking |-> 0, bmi |-> Some(280), egfr |-> 70, bptreat |-> 1,
     statin |-> Some(1), uacr |-> Some(2500), hba1c |-> Some(72), sdi |-> Some(5)]

Patients == {Caso1, Caso2, Caso3}

Fields == {"sex", "age", "tc", "hdl", "sbp", "dm", "smoking", "bmi", "egfr",
           "bptreat", "statin", "uacr", "hba1c", "sdi"}

\* The values a field is replaced by: both sides of every range limit the
\* engine tests, the absent value, and very large values of the unbounded fields.
FieldValues(f) ==
    CASE f = "sex" -> {0, 1, 2}
      [] f = "age" -> {29, 30, 59, 60, 79, 80}
      [] f = "tc" -> {undefined, Some(0), Some(129), Some(130), Some(320), Some(321)}
      [] f = "hdl" -> {undefined, Some(19), Some(20), Some(100), Some(101)}
      [] f = "sbp" -> {89, 90, 200, 201}
      [] f = "dm" -> {0, 1}
      [] f = "smoking" -> {0, 1}
      [] f = "bmi" -> {undefined, Some(184), Some(185), Some(399), Some(400)}
      [] f = "egfr" -> {-5, 0, 1, 100000}
      [] f = "bptreat" -> {0, 1}
      [] f = "statin" -> {undefined, Some(0), Some(1)}
      [] f = "uacr" -> {undefined, Some(-1), Some(0), Some(5), Some(1000000)}
      [] f = "hba1c" -> {undefined, Some(-1), Some(0), Some(1), Some(60000)}
      [] f = "sdi" -> {undefined, Some(0), Some(1), Some(10), Some(11)}

NoResults == AllNull("none")

NoCall == [fn |-> "none", args |-> <<>>]

\* The form as useState constructs it.
EmptyInputs ==
    [sex |-> "", age |-> "", tc |-> "", hdl |-> "", sbp |-> "", dm |-> "",
     smoking |-> "", bmi |-> "", egfr |-> "", bptreat |-> "", statin |-> "",
     uacr |-> "", hba1c |-> "", sdi |-> ""]

FormUntouched ==
    /\ inputs = EmptyInputs
    /\ formattedResults = <<>>
    /\ errors = <<>>

Init ==
    /\ params \in Patients
    /\ results = NoResults
    /\ pc = "input"
    /\ edits = 0
    /\ call = NoCall
    /\ ret = undefined
    /\ FormUntouched

\* The caller sets one field of the record it is about to pass.
SetField(f, v) ==
    /\ pc = "input"
    /\ edits < MaxEdits
    /\ params[f] # v
    /\ params' = [params EXCEPT ![f] = v]
    /\ edits' = edits + 1
    /\ UNCHANGED <<results, pc, call, ret, formVars>>

\* A call that writes the defaults of the formulas into the record it was given.
Calculate_writesDefaults ==
    /\ pc = "input"
    /\ results' = calculatePreventRisk(params)
    /\ pc' = "returned"
    /\ params' = [params EXCEPT !.bmi = Some(OrElse(@, 250))]
    /\ UNCHANGED <<edits, call, ret, formVars>>

\* The call: results = calculatePreventRisk(params).
Calculate ==
    /\ pc = "input"
    /\ results' = calculatePreventRisk(params)
    /\ pc' = "returned"
    /\ UNCHANGED <<params, edits, call, ret, formVars>>

Next ==
    \/ \E f \in Fields : \E v \in FieldValues(f) : SetField(f, v)
    \/ Calculate

Spec == Init /\ [][Next]_vars

----------------------------------------------------------------------------
\* The exported helpers called on their own: sdicat, adjust and interpretRisk
\* take one argument list from a bounded set and return.

MaxSdiArg == 13
MaxUacrArg == 30
MaxRiskArg == 2100

\* Deciles, and integers on both sides of the decile range.
SdiArgs == (0 - MaxSdiArg) .. MaxSdiArg
\* UACR in hundredths of mg/g, from -0.3 to 0.3.
UacrArgs == (0 - MaxUacrArg) .. MaxUacrArg
\* Percentages from 0 to 21 in steps of 0.01, null and NaN.
RiskArgs == {Null, NaN} \cup {Num(v) : v \in 0 .. MaxRiskArg}

HelperCalls ==
    {[fn |-> "sdicat", args |-> <<sdi>>] : sdi \in SdiArgs}
    \cup {[fn |-> "adjust", args |-> <<uacr>>] : uacr \in UacrArgs}
    \cup {[fn |-> "interpretRisk", args |-> <<risk, type, timeframe>>] :
              risk \in RiskArgs, type \in {"CVD", "ASCVD", "HF"},
              timeframe \in {"10yr", "30yr"}}

HelperInit ==
    /\ call \in HelperCalls
    /\ ret = undefined
    /\ params = Caso1
    /\ results = NoResults
    /\ pc = "input"
    /\ edits = 0
    /\ FormUntouched

Call_sdicat ==
    /\ call.fn = "sdicat"
    /\ ret = undefined
    /\ ret' = Some(sdicat(call.args[1]))
    /\ UNCHANGED <<call, params, results, pc, edits, formVars>>

Call_adjust ==
    /\ call.fn = "adjust"
    /\ ret = undefined
    /\ ret' = Some(adjust(call.args[1]))
    /\ UNCHANGED <<call, params, results, pc, edits, formVars>>

Call_interpretRisk ==
    /\ call.fn = "interpretRisk"
    /\ ret = undefined
    /\ ret' = Some(interpretRisk(call.args[1], call.args[2], call.args[3]))
    /\ UNCHANGED <<call, params, results, pc, edits, formVars>>

HelperNext == Call_sdicat \/ Call_adjust \/ Call_interpretRisk

HelperSpec == HelperInit /\ [][HelperNext]_vars

----------------------------------------------------------------------------
\* The form (App.tsx, PreventCalculator): the state inputs / results / errors
\* and the handlers handleInputChange, calculateRisk and clearForm.  The
\* messages are written without their diacritics.  In this part pc names the
\* handler that ran last, edits counts the handleInputChange calls, and
\* params / results hold the last call of calculatePreventRisk the form made.

MaxFormEdits == 2

\* Number(text), in hundredths, for the texts the fields are given.
Number(text) ==
    CASE text = "" -> 0
      [] text = "-1" -> -100
      [] text = "0" -> 0
      [] text = "1" -> 100
      [] text = "5" -> 500
      [] text = "7.2" -> 720
      [] text = "10" -> 1000
      [] text = "24" -> 2400
      [] text = "25" -> 2500
      [] text = "28" -> 2800
      [] text = "29" -> 2900
      [] text = "32" -> 3200
      [] text = "35" -> 3500
      [] text = "40" -> 4000
      [] text = "45" -> 4500
      [] text = "50" -> 5000
      [] text = "55" -> 5500
      [] text = "60" -> 6000
      [] text = "65" -> 6500
      [] text = "70" -> 7000
      [] text = "80" -> 8000
      [] text = "95" -> 9500
      [] text = "101" -> 10100
      [] text = "120" -> 12000
      [] text = "129" -> 12900
      [] text = "140" -> 14000
      [] text = "160" -> 16000
      [] text = "180" -> 18000
      [] text = "200" -> 20000
      [] text = "201" -> 20100
      [] text = "250" -> 25000
      [] text = "6000" -> 600000

\* Number(text) in the unit the engine's model uses for the field.
Whole(text) == Number(text) \div 100
Tenths(text) == Number(text) \div 10
Hundredths(text) == Number(text)

\* text ? Number(text) : undefined
OptionalWhole(text) == IF text # "" THEN Some(Whole(text)) ELSE undefined
OptionalTenths(text) == IF text # "" THEN Some(Tenths(text)) ELSE undefined
OptionalHundredths(text) == IF text # "" THEN Some(Hundredths(text)) ELSE undefined

Message(condition, text) == IF condition THEN <<text>> ELSE <<>>

validateInputs(inp) ==
    Message(inp.sex = "", "Sexo e obrigatorio")
    \o Message(inp.age = "", "Idade e obrigatoria")
    \o Message(inp.sbp = "", "Pressao arterial sistolica e obrigatoria")
    \o Message(inp.dm = "", "Status de diabetes e obrigatorio")
    \o Message(inp.smoking = "", "Status de tabagismo e obrigatorio")
    \o Message(inp.egfr = "", "eGFR e obrigatorio")
    \o Message(inp.bptreat = "", "Tratamento de hipertensao e obrigatorio")
    \o Message(inp.age # "" /\ (Number(inp.age) < 3000 \/ Number(inp.age) > 7900),
               "Idade deve estar entre 30-79 anos")
    \o Message(inp.tc # "" /\ (Number(inp.tc) < 13000 \/ Number(inp.tc) > 32000),
               "Colesterol total deve estar entre 130-320 mg/dL")
    \o Message(inp.hdl # "" /\ (Number(inp.hdl) < 2000 \/ Number(inp.hdl) > 10000),
               "HDL deve estar entre 20-100 mg/dL")
    \o Message(inp.sbp # "" /\ (Number(inp.sbp) < 9000 \/ Number(inp.sbp) > 20000),
               "PAS deve estar entre 90-200 mmHg")
    \o Message(inp.bmi # "" /\ (Number(inp.bmi) < 1850 \/ Number(inp.bmi) >= 4000),
               "IMC deve estar entre 18.5-39.9 kg/m2")
    \o Message(inp.egfr # "" /\ Number(inp.egfr) <= 0, "eGFR deve ser maior que 0")
    \o Message(inp.uacr # "" /\ Number(inp.uacr) < 0, "UACR deve ser >= 0")
    \o Message(inp.hba1c # "" /\ Number(inp.hba1c) <= 0, "HbA1c deve ser > 0")
    \o Message(inp.sdi # "" /\ (Number(inp.sdi) < 100 \/ Number(inp.sdi) > 1000),
               "SDI deve estar entre 1-10")

\* The record calculateRisk passes to calculatePreventRisk.
preventInputs(inp) ==
    [sex |-> Whole(inp.sex),
     age |-> Whole(inp.age),
     tc |-> OptionalWhole(inp.tc),
     hdl |-> OptionalWhole(inp.hdl),
     sbp |-> Whole(inp.sbp),
     dm |-> Whole(inp.dm),
     smoking |-> Whole(inp.smoking),
     bmi |-> OptionalTenths(inp.bmi),
     egfr |-> Whole(inp.egfr),
     bptreat |-> Whole(inp.bptreat),
     statin |-> OptionalWhole(inp.statin),
     uacr |-> OptionalHundredths(inp.uacr),
     hba1c |-> OptionalTenths(inp.hba1c),
     sdi |-> OptionalWhole(inp.sdi)]

\* x ? Number(x.toFixed(1)) : null.  null, NaN and 0 are falsy; toFixed(1)
\* rounds to one decimal, ten units of 1/PercentScale.
toFixed1(x) ==
    IF x.k = "null" \/ x.k = "NaN" THEN Null
    ELSE IF x.k = "Infinity" THEN Infinity
    ELSE IF x.v = 0 THEN Null
    ELSE Num(((x.v + 5) \div 10) * 10)

formattedResultsOf(preventResults) ==
    [model |-> preventResults.model,
     cvd_10yr |-> toFixed1(preventResults.prevent_10yr_CVD),
     cvd_30yr |-> toFixed1(preventResults.prevent_30yr_CVD),
     ascvd_10yr |-> toFixed1(preventResults.prevent_10yr_ASCVD),
     ascvd_30yr |-> toFixed1(preventResults.prevent_30yr_ASCVD),
     hf_10yr |-> toFixed1(preventResults.prevent_10yr_HF),
     hf_30yr |-> toFixed1(preventResults.prevent_30yr_HF)]

\* The form filled with Caso 1, Caso 2 and Caso 3 of TESTE_CASOS_CLINICOS.md.
FormCaso1 ==
    [sex |-> "0", age |-> "45", tc |-> "180", hdl |-> "50", sbp |-> "120",
     dm |-> "0", smoking |-> "0", bmi |-> "24", egfr |-> "95", bptreat |-> "0",
     statin |-> "0", uacr |-> "", hba1c |-> "", sdi |-> ""]

FormCaso2 ==
    [sex |-> "1", age |-> "65", tc |-> "250", hdl |-> "35", sbp |-> "160",
     dm |-> "1", smoking |-> "1", bmi |-> "32", egfr |-> "65", bptreat |-> "1",
     statin |-> "0", uacr |-> "", hba1c |-> "", sdi |-> ""]

FormCaso3 ==
    [sex |-> "0", age |-> "55", tc |-> "200", hdl |-> "40", sbp |-> "140",
     dm |-> "1", smoking |-> "0", bmi |-> "28", egfr |-> "70", bptreat |-> "1",
     statin |-> "1", uacr |-> "25", hba1c |-> "7.2", sdi |-> "5"]

\* The texts a field is given: the options of a select, and for a number
\* input the empty text, values in range and values on the far side of a limit.
FormTexts(field) ==
    CASE field = "sex" -> {"0", "1"}
      [] field = "age" -> {"", "29", "45", "60", "80"}
      [] field = "tc" -> {"", "129", "180"}
      [] field = "hdl" -> {"", "50", "101"}
      [] field = "sbp" -> {"", "120", "201"}
      [] field = "dm" -> {"0", "1"}
      [] field = "smoking" -> {"0", "1"}
      [] field = "bmi" -> {"", "24", "40"}
      [] field = "egfr" -> {"", "0", "95"}
      [] field = "bptreat" -> {"0", "1"}
      [] field = "statin" -> {"0", "1"}
      [] field = "uacr" -> {"", "-1", "0"}
      [] field = "hba1c" -> {"", "0", "6000"}
      [] field = "sdi" -> {"1", "5", "10"}

\* The form as mounted, or already filled with one of the documented patients.
FormInit ==
    /\ inputs \in {EmptyInputs, FormCaso1, FormCaso2, FormCaso3}
    /\ formattedResults = <<>>
    /\ errors = <<>>
    /\ params = Caso1
    /\ results = NoResults
    /\ pc = "mounted"
    /\ edits = 0
    /\ call = NoCall
    /\ ret = undefined

\* handleInputChange without setErrors([]).
handleInputChange_keepsErrors(field, value) ==
    /\ edits < MaxFormEdits
    /\ inputs' = [inputs EXCEPT ![field] = value]
    /\ formattedResults' = <<>>
    /\ edits' = edits + 1
    /\ pc' = "handleInputChange"
    /\ UNCHANGED <<errors, params, results, call, ret>>

\* handleInputChange without setResults(null).
handleInputChange_keepsResults(field, value) ==
    /\ edits < MaxFormEdits
    /\ inputs' = [inputs EXCEPT ![field] = value]
    /\ errors' = <<>>
    /\ edits' = edits + 1
    /\ pc' = "handleInputChange"
    /\ UNCHANGED <<formattedResults, params, results, call, ret>>

handleInputChange(field, value) ==
    /\ edits < MaxFormEdits
    /\ inputs' = [inputs EXCEPT ![field] = value]
    /\ formattedResults' = <<>>
    /\ errors' = <<>>
    /\ edits' = edits + 1
    /\ pc' = "handleInputChange"
    /\ UNCHANGED <<params, results, call, ret>>

\* calculateRisk without the return after setErrors(validationErrors).
calculateRisk_noReturn ==
    LET validationErrors == validateInputs(inputs)
        preventResults == calculatePreventRisk(preventInputs(inputs))
    IN  /\ errors' = validationErrors
        /\ params' = preventInputs(inputs)
        /\ results' = preventResults
        /\ formattedResults' = <<formattedResultsOf(preventResults)>>
        /\ pc' = "calculateRisk"
        /\ UNCHANGED <<inputs, edits, call, ret>>

calculateRisk ==
    LET validationErrors == validateInputs(inputs)
        preventResults == calculatePreventRisk(preventInputs(inputs))
    IN  /\ IF Len(validationErrors) > 0
           THEN /\ errors' = validationErrors
                /\ UNCHANGED <<formattedResults, params, results>>
           ELSE /\ errors' = <<>>
                /\ params' = preventInputs(inputs)
                /\ results' = preventResults
                /\ formattedResults' = <<formattedResultsOf(preventResults)>>
        /\ pc' = "calculateRisk"
        /\ UNCHANGED <<inputs, edits, call, ret>>

\* clearForm without setErrors([]).
clearForm_keepsErrors ==
    /\ inputs' = EmptyInputs
    /\ formattedResults' = <<>>
    /\ pc' = "clearForm"
    /\ UNCHANGED <<errors, params, results, edits, call, ret>>

clearForm ==
    /\ inputs' = EmptyInputs
    /\ formattedResults' = <<>>
    /\ errors' = <<>>
    /\ pc' = "clearForm"
    /\ UNCHANGED <<params, results, edits, call, ret>>

FormNext ==
    \/ \E field \in Fields : \E value \in FormTexts(field) :
          handleInputChange(field, value)
    \/ calculateRisk
    \/ clearForm

FormSpec == FormInit /\ [][FormNext]_vars

----------------------------------------------------------------------------
\* What the claims speak of, stated from the specification's words.

Returned == pc = "returned"

IsNull(x) == x.k = "null"

AllSixNull(r) ==
    /\ IsNull(r.prevent_10yr_CVD) /\ IsNull(r.prevent_30yr_CVD)
    /\ IsNull(r.prevent_10yr_ASCVD) /\ IsNull(r.prevent_30yr_ASCVD)
    /\ IsNull(r.prevent_10yr_HF) /\ IsNull(r.prevent_30yr_HF)

CvdAscvdNull(r) ==
    /\ IsNull(r.prevent_10yr_CVD) /\ IsNull(r.prevent_30yr_CVD)
    /\ IsNull(r.prevent_10yr_ASCVD) /\ IsNull(r.prevent_30yr_ASCVD)

\* Which of the six fields are null.
NullPattern(r) ==
    <<IsNull(r.prevent_10yr_CVD), IsNull(r.prevent_30yr_CVD),
      IsNull(r.prevent_10yr_ASCVD), IsNull(r.prevent_30yr_ASCVD),
      IsNull(r.prevent_10yr_HF), IsNull(r.prevent_30yr_HF)>>

AnyOptionalDefined(p) == \E f \in {"uacr", "hba1c", "sdi"} : p[f] # undefined

SelectedModel(p) == IF AnyOptionalDefined(p) THEN "full" ELSE "base"

SexValid(p) == p.sex \in {0, 1}
AgeValid(p) == 30 <= p.age /\ p.age <= 79
SbpValid(p) == 90 <= p.sbp /\ p.sbp <= 200

GlobalGate(p) == SexValid(p) /\ AgeValid(p) /\ SbpValid(p) /\ p.egfr > 0

PresentIn(x, lo, hi) == x # undefined /\ lo <= x[1] /\ x[1] <= hi

CholesterolGate(p) ==
    PresentIn(p.tc, 130, 320) /\ PresentIn(p.hdl, 20, 100) /\ p.statin # undefined

\* bmi present in [18.5, 40)
BmiGate(p) == p.bmi # undefined /\ 185 <= p.bmi[1] /\ p.bmi[1] < 400

OptionalRangeGate(p) ==
    /\ p.uacr # undefined => p.uacr[1] >= 0
    /\ p.hba1c # undefined => p.hba1c[1] > 0
    /\ p.sdi # undefined => (1 <= p.sdi[1] /\ p.sdi[1] <= 10)

----------------------------------------------------------------------------
\* C1: the model tag of every result is 'full' exactly when at least one of
\* uacr, hba1c, sdi is defined, and 'base' otherwise, whether or not any
\* value is in its valid range; it is never any other value.
C1_ModelTag ==
    Returned =>
        /\ results.model \in {"base", "full"}
        /\ results.model = "full" <=> AnyOptionalDefined(params)

\* A call with only sdi defined, and out of range, returned 'full'.
C1_Witness ==
    /\ Returned
    /\ params.uacr = undefined /\ params.hba1c = undefined
    /\ params.sdi # undefined /\ params.sdi[1] > 10
    /\ results.model = "full"

\* C2: when sex is neither 0 nor 1, or age is below 30 or above 79, all six
\* risk fields are null under both models and the model tag is still the
\* selector's result.
C2_RequiredInvalid ==
    (Returned /\ (~SexValid(params) \/ params.age < 30 \/ params.age > 79)) =>
        /\ AllSixNull(results)
        /\ results.model = SelectedModel(params)

\* A full-model call with age above 79 and everything else valid.
C2_Witness ==
    /\ Returned
    /\ params.age > 79 /\ SexValid(params) /\ SbpValid(params) /\ params.egfr > 0
    /\ CholesterolGate(params) /\ BmiGate(params) /\ OptionalRangeGate(params)
    /\ results.model = "full"
    /\ AllSixNull(results)

\* C3: when sbp is below 90 or above 200, or egfr is at most 0, all six risk
\* fields are null under both models, whatever the other inputs.
C3_SbpEgfrInvalid ==
    (Returned /\ (params.sbp < 90 \/ params.sbp > 200 \/ params.egfr <= 0)) =>
        AllSixNull(results)

\* A base-model call with egfr = 0 and every other input valid.
C3_Witness ==
    /\ Returned
    /\ params.egfr = 0
    /\ SexValid(params) /\ AgeValid(params) /\ SbpValid(params)
    /\ CholesterolGate(params) /\ BmiGate(params)
    /\ results.model = "base"
    /\ AllSixNull(results)

\* C4: when tc is absent or outside [130,320], or hdl is absent or outside
\* [20,100], or statin is undefined, the four CVD and ASCVD fields are null;
\* when every other input is valid, hf_10yr is then non-null, and hf_30yr is
\* non-null whenever age <= 59.
C4_CholesterolFamily ==
    (Returned /\ ~CholesterolGate(params)) =>
        /\ CvdAscvdNull(results)
        /\ (GlobalGate(params) /\ BmiGate(params) /\ OptionalRangeGate(params)) =>
              /\ ~IsNull(results.prevent_10yr_HF)
              /\ params.age <= 59 => ~IsNull(results.prevent_30yr_HF)

\* Only statin is undefined, age <= 59: CVD and ASCVD null, both HF fields not.
C4_Witness ==
    /\ Returned
    /\ params.statin = undefined
    /\ PresentIn(params.tc, 130, 320) /\ PresentIn(params.hdl, 20, 100)
    /\ GlobalGate(params) /\ BmiGate(params) /\ OptionalRangeGate(params)
    /\ params.age <= 59
    /\ CvdAscvdNull(results)
    /\ ~IsNull(results.prevent_10yr_HF) /\ ~IsNull(results.prevent_30yr_HF)

\* C5: when bmi is absent or outside [18.5, 40) (18.5 accepted, 40 rejected),
\* hf_10yr and hf_30yr are null; when every other input is valid, cvd_10yr
\* and ascvd_10yr are then non-null, and their 30-year counterparts are
\* non-null whenever age <= 59.
C5_HfFamily ==
    (Returned /\ ~BmiGate(params)) =>
        /\ IsNull(results.prevent_10yr_HF) /\ IsNull(results.prevent_30yr_HF)
        /\ (GlobalGate(params) /\ CholesterolGate(params) /\ OptionalRangeGate(params)) =>
              /\ ~IsNull(results.prevent_10yr_CVD)
              /\ ~IsNull(results.prevent_10yr_ASCVD)
              /\ params.age <= 59 =>
                    /\ ~IsNull(results.prevent_30yr_CVD)
                    /\ ~IsNull(results.prevent_30yr_ASCVD)

\* bmi = 40 exactly, age <= 59, everything else valid: only the HF fields are null.
C5_Witness ==
    /\ Returned
    /\ params.bmi = Some(400)
    /\ GlobalGate(params) /\ CholesterolGate(params) /\ OptionalRangeGate(params)
    /\ params.age <= 59
    /\ IsNull(results.prevent_10yr_HF) /\ IsNull(results.prevent_30yr_HF)
    /\ ~IsNull(results.prevent_10yr_CVD) /\ ~IsNull(results.prevent_30yr_CVD)
    /\ ~IsNull(results.prevent_10yr_ASCVD) /\ ~IsNull(results.prevent_30yr_ASCVD)

\* C6: under the full model, a defined uacr < 0, a defined hba1c <= 0 or a
\* defined sdi outside [1,10] nulls all six fields, even when the global,
\* cholesterol and BMI gates pass; uacr = 0, sdi = 1 and sdi = 10 do not
\* trigger the rule: with every gate passing the 10-year fields are non-null.
C6_OptionalRange ==
    (Returned /\ results.model = "full") =>
        /\ ~OptionalRangeGate(params) => AllSixNull(results)
        /\ ( /\ params.uacr = Some(0) \/ params.sdi = Some(1) \/ params.sdi = Some(10)
             /\ OptionalRangeGate(params)
             /\ GlobalGate(params) /\ CholesterolGate(params) /\ BmiGate(params) ) =>
              /\ ~IsNull(results.prevent_10yr_CVD)
              /\ ~IsNull(results.prevent_10yr_ASCVD)
              /\ ~IsNull(results.prevent_10yr_HF)

\* A negative uacr with the three other gates passing: all six null.
C6_Witness ==
    /\ Returned
    /\ params.uacr # undefined /\ params.uacr[1] < 0
    /\ GlobalGate(params) /\ CholesterolGate(params) /\ BmiGate(params)
    /\ results.model = "full"
    /\ AllSixNull(results)

\* C7: each 30-year field is non-null exactly when age <= 59 and the 10-year
\* field of the same endpoint is non-null.
C7_ThirtyYearGate ==
    Returned =>
        /\ ~IsNull(results.prevent_30yr_CVD) <=>
              (params.age <= 59 /\ ~IsNull(results.prevent_10yr_CVD))
        /\ ~IsNull(results.prevent_30yr_ASCVD) <=>
              (params.age <= 59 /\ ~IsNull(results.prevent_10yr_ASCVD))
        /\ ~IsNull(results.prevent_30yr_HF) <=>
              (params.age <= 59 /\ ~IsNull(results.prevent_10yr_HF))

\* Age 59 still yields the three 30-year values.
C7_Witness ==
    /\ Returned
    /\ params.age = 59
    /\ ~IsNull(results.prevent_30yr_CVD)
    /\ ~IsNull(results.prevent_30yr_ASCVD)
    /\ ~IsNull(results.prevent_30yr_HF)

\* C8: cvd_10yr and ascvd_10yr are non-null exactly when the global gate, the
\* cholesterol gate and the optional-range gate all pass; hf_10yr is non-null
\* exactly when the global gate, the BMI gate and the optional-range gate all
\* pass; flipping dm, smoking or bptreat never changes which fields are null.
C8_TenYearGating ==
    Returned =>
        /\ ~IsNull(results.prevent_10yr_CVD) <=>
              (GlobalGate(params) /\ CholesterolGate(params) /\ OptionalRangeGate(params))
        /\ ~IsNull(results.prevent_10yr_ASCVD) <=>
              (GlobalGate(params) /\ CholesterolGate(params) /\ OptionalRangeGate(params))
        /\ ~IsNull(results.prevent_10yr_HF) <=>
              (GlobalGate(params) /\ BmiGate(params) /\ OptionalRangeGate(params))
        /\ \A flag \in {"dm", "smoking", "bptreat"} :
              NullPattern(calculatePreventRisk([params EXCEPT ![flag] = 1 - @]))
                  = NullPattern(results)

\* A diabetic patient whose HDL alone is out of range: HF is computed, CVD
\* and ASCVD are not.
C8_Witness ==
    /\ Returned
    /\ params.dm = 1
    /\ params.hdl # undefined /\ params.hdl[1] > 100
    /\ PresentIn(params.tc, 130, 320) /\ params.statin # undefined
    /\ GlobalGate(params) /\ BmiGate(params) /\ OptionalRangeGate(params)
    /\ IsNull(results.prevent_10yr_CVD) /\ IsNull(results.prevent_10yr_ASCVD)
    /\ ~IsNull(results.prevent_10yr_HF)

\* C9: every non-null risk field is a percentage in [0,100], for every input
\* in the documented valid domains, including unbounded-above values of egfr,
\* uacr and hba1c.
C9_PercentRange ==
    Returned =>
        \A f \in {"prevent_10yr_CVD", "prevent_30yr_CVD", "prevent_10yr_ASCVD",
                  "prevent_30yr_ASCVD", "prevent_10yr_HF", "prevent_30yr_HF"} :
            ~IsNull(results[f]) =>
                /\ results[f].k = "num"
                /\ 0 <= results[f].v /\ results[f].v <= 100 * PercentScale

RiskFields ==
    {"prevent_10yr_CVD", "prevent_30yr_CVD", "prevent_10yr_ASCVD",
     "prevent_30yr_ASCVD", "prevent_10yr_HF", "prevent_30yr_HF"}

\* C11: calculatePreventRisk returns, for every input, a result whose six
\* risk fields are each either null or an ordinary number; invalid data is
\* signalled only by null, never by a sentinel value such as NaN or Infinity.
C11_NullOrNumber ==
    Returned => \A f \in RiskFields : results[f].k \in {"null", "num"}

\* A direct call of the helper fn has returned.
HelperReturned(fn) == call.fn = fn /\ ret # undefined

\* C12: sdicat maps deciles 1, 2, 3 to tertile 0, deciles 4, 5, 6 to tertile 1
\* and deciles 7, 8, 9, 10 to tertile 2; every other input (below 1 or above
\* 10) maps to 0; the result is always one of 0, 1, 2.
C12_SdiTertile ==
    HelperReturned("sdicat") =>
        LET sdi == call.args[1]
            tertile == ret[1]
        IN  /\ tertile \in {0, 1, 2}
            /\ sdi \in {1, 2, 3} => tertile = 0
            /\ sdi \in {4, 5, 6} => tertile = 1
            /\ sdi \in {7, 8, 9, 10} => tertile = 2
            /\ (sdi < 1 \/ sdi > 10) => tertile = 0

\* sdicat(11) returned 0.
C12_Witness ==
    /\ HelperReturned("sdicat")
    /\ call.args[1] = 11
    /\ ret[1] = 0

HfLogodds10(p) ==
    IF AnyOptionalDefined(p)
    THEN IF p.sex = 1 THEN logor_10yr_HF_female_full(p) ELSE logor_10yr_HF_male_full(p)
    ELSE IF p.sex = 1 THEN logor_10yr_HF_female_base(p) ELSE logor_10yr_HF_male_base(p)

HfLogodds30(p) ==
    IF AnyOptionalDefined(p)
    THEN IF p.sex = 1 THEN logor_30yr_HF_female_full(p) ELSE logor_30yr_HF_male_full(p)
    ELSE IF p.sex = 1 THEN logor_30yr_HF_female_base(p) ELSE logor_30yr_HF_male_base(p)

WithBmi(p, b) == [p EXCEPT !.bmi = b]

\* bmi from 25 to 30 in steps of 0.5.
BmiFrom25To30 == {250 + 5 * i : i \in 0 .. 10}

\* bmi below, between and above the two knots.
BmiAround == {200, 240, 250, 280, 300, 320, 390}

\* C15, as stated: in every HF formula the two BMI segments are
\* (min(bmi,25) - 25)/5 and (max(bmi,30) - 30)/5; hence for 25 <= bmi <= 30
\* both are zero and the HF log-odds do not vary with bmi there.
C15_FlatFrom25To30 ==
    (Returned /\ SexValid(params) /\ AgeValid(params)) =>
        /\ \A b \in BmiAround :
              /\ bmiSegmentLow(WithBmi(params, Some(b))) = Math_min(b, 250) - 250
              /\ bmiSegmentHigh(WithBmi(params, Some(b))) = Math_max(b, 300) - 300
        /\ \A b \in BmiFrom25To30 :
              /\ bmiSegmentLow(WithBmi(params, Some(b))) = 0
              /\ bmiSegmentHigh(WithBmi(params, Some(b))) = 0
              /\ HfLogodds10(WithBmi(params, Some(b)))
                    = HfLogodds10(WithBmi(params, Some(250)))
              /\ HfLogodds30(WithBmi(params, Some(b)))
                    = HfLogodds30(WithBmi(params, Some(250)))

\* C15, amended: in every HF formula the two BMI segments are
\* (min(bmi,30) - 25)/5 and (max(bmi,30) - 30)/5; hence for 25 <= bmi <= 30
\* the second segment is zero, the first is (bmi - 25)/5, and the HF log-odds
\* vary with bmi there: they differ from their value at bmi = 25 for every
\* bmi above 25.
C15_FirstSegmentTo30 ==
    (Returned /\ SexValid(params) /\ AgeValid(params)) =>
        /\ \A b \in BmiAround :
              /\ bmiSegmentLow(WithBmi(params, Some(b))) = Math_min(b, 300) - 250
              /\ bmiSegmentHigh(WithBmi(params, Some(b))) = Math_max(b, 300) - 300
        /\ \A b \in BmiFrom25To30 :
              /\ bmiSegmentLow(WithBmi(params, Some(b))) = b - 250
              /\ bmiSegmentHigh(WithBmi(params, Some(b))) = 0
              /\ b > 250 =>
                    /\ HfLogodds10(WithBmi(params, Some(b)))
                          # HfLogodds10(WithBmi(params, Some(250)))
                    /\ HfLogodds30(WithBmi(params, Some(b)))
                          # HfLogodds30(WithBmi(params, Some(250)))

\* A call with bmi = 28 returned both HF risks, computed from log-odds that
\* are not those of bmi = 25.
C15_Witness ==
    /\ Returned
    /\ params.bmi = Some(280)
    /\ SexValid(params) /\ AgeValid(params)
    /\ ~IsNull(results.prevent_10yr_HF) /\ ~IsNull(results.prevent_30yr_HF)
    /\ HfLogodds10(params) # HfLogodds10(WithBmi(params, Some(250)))

\* C16: when bmi is absent the HF formulas use 25 in its place, so both BMI
\* segments and the age-BMI interaction are zero and the HF log-odds equal
\* those for bmi = 25; the computation does not fail, and the HF fields of
\* the result are nevertheless null.
C16_BmiAbsent ==
    (Returned /\ SexValid(params) /\ AgeValid(params)) =>
        LET absent == WithBmi(params, undefined)
            at25 == WithBmi(params, Some(250))
        IN  /\ bmiSegmentLow(absent) = 0
            /\ bmiSegmentHigh(absent) = 0
            /\ (params.age - 55) * bmiSegmentHigh(absent) = 0
            /\ HfLogodds10(absent) = HfLogodds10(at25)
            /\ HfLogodds30(absent) = HfLogodds30(at25)
            /\ params.bmi = undefined =>
                  /\ IsNull(results.prevent_10yr_HF)
                  /\ IsNull(results.prevent_30yr_HF)
                  /\ (GlobalGate(params) /\ CholesterolGate(params)
                        /\ OptionalRangeGate(params)) =>
                          /\ ~IsNull(results.prevent_10yr_CVD)
                          /\ ~IsNull(results.prevent_10yr_ASCVD)

\* A call without bmi and with every other input valid returned the CVD and
\* ASCVD risks and no HF risk.
C16_Witness ==
    /\ Returned
    /\ params.bmi = undefined
    /\ GlobalGate(params) /\ CholesterolGate(params) /\ OptionalRangeGate(params)
    /\ results.prevent_10yr_CVD.k = "num"
    /\ IsNull(results.prevent_10yr_HF) /\ IsNull(results.prevent_30yr_HF)

\* The other two optional variables absent, defined and zero, defined and positive.
UacrPresence == {undefined, Some(0), Some(2500)}
Hba1cPresence == {undefined, Some(0), Some(72)}
SdiPresence == {undefined, Some(0), Some(5)}

\* C17: in the full model each optional term (SDI, UACR, HbA1c) is chosen by
\* the presence of its own variable alone: it is the fallback constant when
\* the variable is undefined and the computed expression when it is defined,
\* a defined value of 0 included; the presence of one optional variable never
\* changes the term of the other two.  Stated for the terms of the 10-year
\* CVD formula for women.
C17_OptionalTerms ==
    (Returned /\ results.model = "full" /\ SexValid(params) /\ AgeValid(params)) =>
        LET p == params
            sdiTerm(q) == getSdiTerm(q, 13620, 22616, 18045)
            uacrTerm(q) == getUacrTerm(q, 16459, 1984)
            hba1cTerm(q) == getHba1cTerm(q, 12985, 14126, -317)
        IN  /\ p.sdi = undefined => sdiTerm(p) = 18045
            /\ p.sdi # undefined =>
                  LET t == sdicat(p.sdi[1])
                  IN  sdiTerm(p) = 13620 * (2 - t) * t + (22616 * (t - 1) * t) \div 2
            /\ p.uacr = undefined => uacrTerm(p) = 1984 /\ ~logIsNaN(p)
            /\ (p.uacr # undefined /\ p.uacr[1] >= 0) =>
                  /\ uacrTerm(p)
                        = (16459 * (Math_log(adjust(p.uacr[1])) \div 10)) \div 10000
                  /\ ~logIsNaN(p)
            /\ (p.uacr # undefined /\ p.uacr[1] < 0) => logIsNaN(p)
            /\ p.hba1c = undefined => hba1cTerm(p) = -317
            /\ p.hba1c # undefined =>
                  hba1cTerm(p) = (12985 * (p.hba1c[1] - 53) * p.dm) \div 10
                                 + (14126 * (p.hba1c[1] - 53) * (1 - p.dm)) \div 10
            /\ \A u \in UacrPresence, h \in Hba1cPresence :
                  sdiTerm([p EXCEPT !.uacr = u, !.hba1c = h]) = sdiTerm(p)
            /\ \A d \in SdiPresence, h \in Hba1cPresence :
                  /\ uacrTerm([p EXCEPT !.sdi = d, !.hba1c = h]) = uacrTerm(p)
                  /\ logIsNaN([p EXCEPT !.sdi = d, !.hba1c = h]) = logIsNaN(p)
            /\ \A d \in SdiPresence, u \in UacrPresence :
                  hba1cTerm([p EXCEPT !.sdi = d, !.uacr = u]) = hba1cTerm(p)

\* A full-model call with uacr = 0 and neither hba1c nor sdi: the UACR term is
\* the computed one, the other two are their fallback constants.
C17_Witness ==
    /\ Returned
    /\ params.uacr = Some(0) /\ params.hba1c = undefined /\ params.sdi = undefined
    /\ results.model = "full"
    /\ ~IsNull(results.prevent_10yr_CVD)
    /\ getUacrTerm(params, 16459, 1984) # 1984
    /\ getSdiTerm(params, 13620, 22616, 18045) = 18045
    /\ getHba1cTerm(params, 12985, 14126, -317) = -317

\* The nullification rules 2 to 5 of the model m, as the engine applies them
\* to the record r for the inputs p.
Rule2(m, p, r) ==
    IF m = "full" THEN full_statinRule(p, full_cholesterolRule(p, r))
    ELSE base_statinRule(p, base_cholesterolRule(p, r))
Rule3(m, p, r) == IF m = "full" THEN full_globalRule(p, r) ELSE base_globalRule(p, r)
Rule4(m, p, r) == IF m = "full" THEN full_bmiRule(p, r) ELSE base_bmiRule(p, r)
Rule5(m, p, r) == IF m = "full" THEN full_optionalRule(p, r) ELSE r

\* A record with all six risks computed.
AllComputed(m) ==
    [prevent_10yr_CVD |-> Num(1000), prevent_30yr_CVD |-> Num(2000),
     prevent_10yr_ASCVD |-> Num(500), prevent_30yr_ASCVD |-> Num(1500),
     prevent_10yr_HF |-> Num(300), prevent_30yr_HF |-> Num(900), model |-> m]

\* after is before with some more fields set to null, and nothing else changed.
OnlyNulls(before, after) ==
    /\ after.model = before.model
    /\ \A f \in RiskFields : IsNull(after[f]) \/ after[f] = before[f]

\* C18: the nullification rules only set fields to null and never restore a
\* value, so the final null pattern is the union of the fields nulled by each
\* rule that fires: rules 2, 3 and 4 give the same result in any order, and a
\* firing rule 5 nulls all six fields whatever rules 2-4 preserved.
C18_RulesOnlyNull ==
    (Returned /\ SexValid(params) /\ AgeValid(params)) =>
        LET p == params
            m == results.model
            all == AllComputed(m)
            r2(r) == Rule2(m, p, r)
            r3(r) == Rule3(m, p, r)
            r4(r) == Rule4(m, p, r)
            r5(r) == Rule5(m, p, r)
        IN  /\ \A r \in {all, results, NullCvdAscvd(all), NullHf(all)} :
                  /\ OnlyNulls(r, r2(r)) /\ OnlyNulls(r, r3(r))
                  /\ OnlyNulls(r, r4(r)) /\ OnlyNulls(r, r5(r))
                  /\ r3(r4(r2(r))) = r4(r3(r2(r)))
                  /\ r2(r4(r3(r))) = r4(r3(r2(r)))
                  /\ r4(r2(r3(r))) = r4(r3(r2(r)))
                  /\ r2(r3(r4(r))) = r4(r3(r2(r)))
                  /\ r3(r2(r4(r))) = r4(r3(r2(r)))
            /\ (m = "full" /\ ~OptionalRangeGate(p)) =>
                  /\ AllSixNull(r5(all))
                  /\ AllSixNull(r5(r4(r3(r2(all)))))
            /\ \A f \in RiskFields :
                  /\ IsNull(r5(r4(r3(r2(all))))[f]) <=>
                        \/ IsNull(r2(all)[f]) \/ IsNull(r3(all)[f])
                        \/ IsNull(r4(all)[f]) \/ IsNull(r5(all)[f])
                  /\ IsNull(results[f]) <=>
                        \/ IsNull(r5(r4(r3(r2(all))))[f])
                        \/ f \in {"prevent_30yr_CVD", "prevent_30yr_ASCVD",
                                   "prevent_30yr_HF"} /\ p.age > 59
            /\ r5(r4(r3(r2(results)))) = results

\* A full-model call in which the cholesterol rule and the BMI rule fired and
\* the other two did not: the four fields of the one and the two of the other
\* are null.
C18_Witness ==
    /\ Returned
    /\ results.model = "full"
    /\ GlobalGate(params) /\ OptionalRangeGate(params)
    /\ ~CholesterolGate(params) /\ ~BmiGate(params)
    /\ AllSixNull(results)

\* C19: calculatePreventRisk, preventBase and preventFull leave the input
\* record unchanged: after the call every field of params, absent optional
\* fields included, has the value it had before the call.
C19_InputsUnchanged ==
    [][(pc = "input" /\ pc' = "returned") =>
          /\ params' = params
          /\ results' \in {preventBase(params), preventFull(params)}]_vars

\* A call without bmi, uacr, hba1c and sdi has returned, and they are still absent.
C19_Witness ==
    /\ Returned
    /\ params.bmi = undefined /\ params.uacr = undefined
    /\ params.hba1c = undefined /\ params.sdi = undefined
    /\ results.model = "base"

\* The category of a 10-year ASCVD risk in the clinical-interpretation tables
\* (TESTE_CASOS_CLINICOS.md, and the recommendations panel of App.tsx): low
\* below 7.5, intermediate from 7.5 to 20, high from 20.
DocumentedCategory(risk) ==
    IF risk.v < 750 THEN "Baixo risco"
    ELSE IF risk.v < 2000 THEN "Risco intermediario"
    ELSE "Alto risco"

\* C20: for a non-null 10-year ASCVD risk the label is low risk when
\* risk < 7.5, intermediate risk when 7.5 <= risk < 20 and high risk when
\* risk >= 20, as documented; interpretRisk('ASCVD','10yr') returns the label
\* of that documented category for every risk value.
C20_AscvdLabel ==
    ( /\ HelperReturned("interpretRisk")
      /\ call.args[2] = "ASCVD" /\ call.args[3] = "10yr"
      /\ call.args[1].k = "num" ) =>
        ret[1] = DocumentedCategory(call.args[1])

\* C21: for clinical Case 1 (male, 45, tc 180, hdl 50, sbp 120, no diabetes,
\* non-smoker, bmi 24, egfr 95, no BP treatment, no statin, no optional
\* variables) the base model is used and yields a 10-year CVD risk of about
\* 3-5%, a 10-year ASCVD risk of about 2-4% and a 10-year HF risk of about 1-2%.
C21_Caso1Expected ==
    (Returned /\ params = Caso1) =>
        /\ results.model = "base"
        /\ results.prevent_10yr_CVD.k = "num"
        /\ 3 * PercentScale <= results.prevent_10yr_CVD.v
        /\ results.prevent_10yr_CVD.v <= 5 * PercentScale
        /\ results.prevent_10yr_ASCVD.k = "num"
        /\ 2 * PercentScale <= results.prevent_10yr_ASCVD.v
        /\ results.prevent_10yr_ASCVD.v <= 4 * PercentScale
        /\ results.prevent_10yr_HF.k = "num"
        /\ 1 * PercentScale <= results.prevent_10yr_HF.v
        /\ results.prevent_10yr_HF.v <= 2 * PercentScale

\* The (coef1, coef2, missingCoef) of the SDI term in the twelve formulas of
\* the full model.
SdiCoefficients ==
    {<<13620, 22616, 18045>>, <<14140, 22814, 15889>>, <<12130, 23141, 18191>>,
     <<10677, 18531, 15671>>, <<11076, 18404, 13090>>, <<8476, 18397, 14858>>,
     <<8024, 27507, 14476>>, <<6511, 26767, 13885>>, <<11064, 33712, 16946>>,
     <<2567, 18876, 8924>>, <<1568, 18642, 8457>>, <<5775, 24464, 10768>>}

\* C22: the SDI term with coefficients c1, c2 is 0 for every defined sdi whose
\* tertile is 0 (deciles 1-3 and every out-of-range value), c1 for tertile 1
\* (deciles 4-6) and c2 for tertile 2 (deciles 7-10); it is never any other
\* value when sdi is defined.
C22_SdiTermValues ==
    (Returned /\ results.model = "full" /\ params.sdi # undefined) =>
        \A c \in SdiCoefficients :
            LET sdi == params.sdi[1]
                term == getSdiTerm(params, c[1], c[2], c[3])
            IN  /\ term \in {0, c[1], c[2]}
                /\ (sdi < 4 \/ sdi > 10) => term = 0
                /\ (4 <= sdi /\ sdi <= 6) => term = c[1]
                /\ (7 <= sdi /\ sdi <= 10) => term = c[2]

\* A full-model call with sdi = 10 returned its risks; the SDI term of the
\* 10-year CVD formula for women was its second coefficient.
C22_Witness ==
    /\ Returned
    /\ params.sdi = Some(10)
    /\ results.model = "full"
    /\ ~IsNull(results.prevent_10yr_CVD)
    /\ getSdiTerm(params, 13620, 22616, 18045) = 22616

----------------------------------------------------------------------------
\* The form, in the specification's words.

\* A required field of the form is empty.
RequiredMissing(inp) ==
    \E f \in {"sex", "age", "sbp", "dm", "smoking", "egfr", "bptreat"} : inp[f] = ""

\* A filled field holds a value outside the range the form accepts.
OutOfRange(inp) ==
    \/ inp.age # "" /\ (Number(inp.age) < 3000 \/ Number(inp.age) > 7900)
    \/ inp.tc # "" /\ (Number(inp.tc) < 13000 \/ Number(inp.tc) > 32000)
    \/ inp.hdl # "" /\ (Number(inp.hdl) < 2000 \/ Number(inp.hdl) > 10000)
    \/ inp.sbp # "" /\ (Number(inp.sbp) < 9000 \/ Number(inp.sbp) > 20000)
    \/ inp.bmi # "" /\ (Number(inp.bmi) < 1850 \/ Number(inp.bmi) >= 4000)
    \/ inp.egfr # "" /\ Number(inp.egfr) <= 0
    \/ inp.uacr # "" /\ Number(inp.uacr) < 0
    \/ inp.hba1c # "" /\ Number(inp.hba1c) <= 0
    \/ inp.sdi # "" /\ (Number(inp.sdi) < 100 \/ Number(inp.sdi) > 1000)

ResultsShown == formattedResults # <<>>

\* C23: pressing Calculate when validation reports at least one error (a
\* missing required field or an out-of-range value) stores exactly those
\* messages, does not call calculatePreventRisk, and leaves the results state
\* and all input fields unchanged; when validation reports no error it clears
\* the error list and stores a new result.
C23_CalculateRisk ==
    [][pc' = "calculateRisk" =>
          IF RequiredMissing(inputs) \/ OutOfRange(inputs)
          THEN /\ errors' = validateInputs(inputs)
               /\ Len(errors') > 0
               /\ UNCHANGED <<formattedResults, inputs, params, results>>
          ELSE /\ errors' = <<>>
               /\ inputs' = inputs
               /\ params' = preventInputs(inputs)
               /\ results' = calculatePreventRisk(params')
               /\ formattedResults' = <<formattedResultsOf(results')>>]_vars

\* Calculate was pressed with age 80 in an otherwise complete form: the one
\* message is stored and no result is shown.
C23_Witness ==
    /\ pc = "calculateRisk"
    /\ inputs.age = "80"
    /\ errors = <<"Idade deve estar entre 30-79 anos">>
    /\ ~ResultsShown

\* C24: every change of a form field sets results to null and errors to the
\* empty list and updates only the changed field; so after an input edit no
\* result computed from earlier inputs stays displayed until Calculate is
\* pressed again.
C24_HandleInputChange ==
    [][(pc' = "handleInputChange" /\ edits' = edits + 1) =>
          /\ formattedResults' = <<>>
          /\ errors' = <<>>
          /\ \E f \in Fields : \A g \in Fields \ {f} : inputs'[g] = inputs[g]
          /\ UNCHANGED <<params, results>>]_vars

\* A field was changed after a calculation: the engine's last result was
\* computed from other inputs, and nothing is displayed.
C24_Witness ==
    /\ pc = "handleInputChange"
    /\ results # NoResults
    /\ params # preventInputs(inputs)
    /\ ~ResultsShown /\ errors = <<>>

\* C25: clearForm, from any reachable form state (also while results or
\* errors are shown), returns the form to its initial state: all 14 fields
\* empty, results null, errors empty.
C25_ClearForm ==
    pc = "clearForm" =>
        /\ \A f \in Fields : inputs[f] = ""
        /\ formattedResults = <<>>
        /\ errors = <<>>

\* The form was cleared after the engine had returned a result for it.
C25_Witness ==
    /\ pc = "clearForm"
    /\ results # NoResults
    /\ inputs = EmptyInputs /\ ~ResultsShown /\ errors = <<>>

\* C26: in every reachable state of the form results and errors are never
\* both present: a non-null results state implies an empty error list, and
\* the results shown were computed from exactly the current input values.
C26_ResultsAreCurrent ==
    ResultsShown =>
        /\ errors = <<>>
        /\ ~RequiredMissing(inputs) /\ ~OutOfRange(inputs)
        /\ params = preventInputs(inputs)
        /\ results = calculatePreventRisk(preventInputs(inputs))
        /\ formattedResults = <<formattedResultsOf(results)>>

\* Results are shown for a form that was edited twice before Calculate.
C26_Witness ==
    /\ ResultsShown
    /\ pc = "calculateRisk"
    /\ edits = MaxFormEdits
    /\ errors = <<>>

\* C27: whenever the form displays results, the engine was called with inputs
\* that passed every form range check, so its global gate and optional-range
\* rule never fire through the form: cvd_10yr and ascvd_10yr are null only
\* if tc, hdl or statin was left blank, hf_10yr is null only if bmi was left
\* blank, and the 30-year fields are additionally null only when age > 59.
C27_FormNulls ==
    ResultsShown =>
        LET shown == formattedResults[1]
            cholesterolBlank == inputs.tc = "" \/ inputs.hdl = "" \/ inputs.statin = ""
            bmiBlank == inputs.bmi = ""
            over59 == Number(inputs.age) > 5900
        IN  /\ ~OutOfRange(inputs)
            /\ IsNull(shown.cvd_10yr) => cholesterolBlank
            /\ IsNull(shown.ascvd_10yr) => cholesterolBlank
            /\ IsNull(shown.hf_10yr) => bmiBlank
            /\ IsNull(shown.cvd_30yr) => (cholesterolBlank \/ over59)
            /\ IsNull(shown.ascvd_30yr) => (cholesterolBlank \/ over59)
            /\ IsNull(shown.hf_30yr) => (bmiBlank \/ over59)

----------------------------------------------------------------------------
CholesterolVariants(p) ==
    {[p EXCEPT !.tc = undefined], [p EXCEPT !.hdl = Some(101)],
     [p EXCEPT !.statin = undefined],
     [p EXCEPT !.tc = Some(320), !.hdl = Some(20), !.statin = Some(1)]}

BmiVariants(p) ==
    {[p EXCEPT !.bmi = undefined], [p EXCEPT !.bmi = Some(185)],
     [p EXCEPT !.bmi = Some(400)]}

\* C29: two inputs that differ only in tc, hdl and statin (values or
\* presence) have identical hf_10yr and hf_30yr (same nullness, same value);
\* two inputs that differ only in bmi have identical CVD and ASCVD fields.
\* This holds for both models.
C29_ScoreFamilies ==
    Returned =>
        /\ \A q \in CholesterolVariants(params) :
              LET other == calculatePreventRisk(q)
              IN  /\ other.prevent_10yr_HF = results.prevent_10yr_HF
                  /\ other.prevent_30yr_HF = results.prevent_30yr_HF
        /\ \A q \in BmiVariants(params) :
              LET other == calculatePreventRisk(q)
              IN  /\ other.prevent_10yr_CVD = results.prevent_10yr_CVD
                  /\ other.prevent_30yr_CVD = results.prevent_30yr_CVD
                  /\ other.prevent_10yr_ASCVD = results.prevent_10yr_ASCVD
                  /\ other.prevent_30yr_ASCVD = results.prevent_30yr_ASCVD

\* A call without tc returned the HF risks of the same patient with a
\* complete cholesterol panel, and no CVD risk.
C29_Witness ==
    /\ Returned
    /\ params.tc = undefined
    /\ results.prevent_10yr_HF.k = "num"
    /\ IsNull(results.prevent_10yr_CVD)
    /\ LET complete == calculatePreventRisk([params EXCEPT !.tc = Some(320)])
       IN  /\ complete.prevent_10yr_CVD.k = "num"
           /\ complete.prevent_10yr_HF = results.prevent_10yr_HF

\* C30: the base and full models gate identically: when each defined
\* optional variable is in range (uacr >= 0, hba1c > 0, sdi in [1,10]),
\* preventFull and preventBase applied to the same sex, age, sbp, egfr, tc,
\* hdl, statin and bmi return the same set of null fields; the two models
\* differ in null pattern only when the optional-range rule fires.
C30_SameGating ==
    Returned =>
        /\ OptionalRangeGate(params) =>
              NullPattern(preventFull(params)) = NullPattern(preventBase(params))
        /\ NullPattern(preventFull(params)) # NullPattern(preventBase(params)) =>
              ~OptionalRangeGate(params)

\* A full-model call with in-range optional variables and bmi out of range:
\* as in the base model, only the HF fields are null at 10 years.
C30_Witness ==
    /\ Returned
    /\ results.model = "full"
    /\ OptionalRangeGate(params)
    /\ GlobalGate(params) /\ CholesterolGate(params) /\ ~BmiGate(params)
    /\ NullPattern(preventBase(params)) = NullPattern(results)
    /\ IsNull(results.prevent_10yr_HF) /\ ~IsNull(results.prevent_10yr_CVD)

====
